---------------------------- MODULE Spec2Model ----------------------------
(***************************************************************************)
(* The Firecracker microVM sandbox orchestrator:                           *)
(*   firecracker-network.ts   (allocateTap, recreateTap, releaseTap, ...)  *)
(*   firecracker-provider.ts  (startFirecrackerSandbox and its rollback)   *)
(*   firecracker-sandbox-instance.ts (stop, snapshot, destroy)             *)
(*   scripts/fc-helper.sh     (the sudo gateway)                           *)
(*                                                                         *)
(* Node runs every async function to its next await without interruption,  *)
(* so one action of this model is: the completion of the call a function   *)
(* is awaiting (its effect on the host and its result, ok or error),       *)
(* followed by the synchronous code up to the next await.                  *)
(*                                                                         *)
(* Spec      : calls made one after the other on NumSeq VMs                *)
(* SpecChain : starts and snapshots only, on NumVMs VMs                    *)
(* SpecAlloc : overlapping fresh-boot starts and stops on NumConc VMs, on  *)
(*             a host that may hold fc_tap devices of an earlier run       *)
(***************************************************************************)
EXTENDS Integers, Sequences, FiniteSets, TLC

\* ---- bounds of the model ----
NumVMs == 3            \* start requests in SpecChain
NumSeq == 2            \* start requests in Spec
NumConc == 2           \* start requests that may overlap in SpecAlloc
NumSnaps == 2          \* snapshot ids callers use
MaxOrphans == 1        \* fc_tap devices that may exist before process start
MaxStopCalls == 2      \* stop()/destroy() calls per instance
MaxFaults == 2         \* calls that fail although they could have succeeded
ChainFaults == 1       \* the same, in SpecChain
NumPorts == 2          \* how many of the CONTAINER_PORTS are proxied
StartsLow == 130       \* SpecIndex: largest small number of devices at process start
StartsHigh == 2        \* SpecIndex: how far below the full address space it starts
NumPids == 2           \* process ids the host hands out, and reuses
MaxSnapshots == 2      \* snapshot() calls in one run

\* ---- program constants ----
MAX_SUBNETS == 16384
SANDBOXD_PORT == 46831
CONTAINER_PORTS == <<39375, 39377, 39378, 39379, 39380, 39381, 39383>>

VMs == 1 .. NumVMs
SeqVMs == 1 .. NumSeq
ConcVMs == 1 .. NumConc
Idx == 0 .. (NumVMs + MaxOrphans)
VmId(v) == "fc-" \o ToString(v)
SnapId(k) == "s" \o ToString(k)
SnapIds == {SnapId(k) : k \in 1 .. NumSnaps}
NoSnapshot == ""
NoCreator == 0
Orphan == -1

\* ---- paths below paths.snapshotDir, as sequences of components ----
Join(p, name) == Append(p, name)
Dirname(p) == SubSeq(p, 1, Len(p) - 1)
IsUnder(d, p) == Len(p) >= Len(d) /\ SubSeq(p, 1, Len(d)) = d
VmDir(v) == <<"_running", VmId(v)>>
SocketPath(v) == Join(VmDir(v), "firecracker.sock")
LogPath(v) == Join(VmDir(v), "firecracker.log")
\* provider line 293: path.join(vmDir, "rootfs.ext4")
DefaultRootfs(v) == Join(VmDir(v), "rootfs.ext4")
SnapshotDirOf(s) == <<s>>
SnapshotBin(s) == Join(SnapshotDirOf(s), "snapshot.bin")
MemBin(s) == Join(SnapshotDirOf(s), "mem.bin")
SnapshotRootfs(s) == Join(SnapshotDirOf(s), "rootfs.ext4")
MetadataPath(s) == Join(SnapshotDirOf(s), "metadata.json")
BaseRootfs == <<"cmux-base.ext4">>
\* paths.binary and paths.kernel, outside the snapshot root
BinaryPath == <<"/", "firecracker">>
KernelPath == <<"/", "vmlinux">>
Prerequisites == {BinaryPath, KernelPath, BaseRootfs}

\* fs.mkdirSync(d, {recursive: true})
MkdirP(ds, d) == ds \cup {SubSeq(d, 1, n) : n \in 1 .. Len(d)}
\* fs.rmSync(d, {recursive: true, force: true})
RmDirs(ds, d) == {x \in ds : ~IsUnder(d, x)}
RmFiles(fs, d) == [p \in {x \in DOMAIN fs : ~IsUnder(d, x)} |-> fs[p]]
\* fs.unlinkSync(p), errors ignored by every caller
Unlink(fs, p) == [q \in DOMAIN fs \ {p} |-> fs[q]]
WriteFile(fs, p, c) == (p :> c) @@ fs

\* ---- text: a string is a sequence of one-character strings ----
Digits == {"0", "1", "2", "3", "4", "5", "6", "7", "8", "9"}
\* the letters the arguments of this model are written with
Letters == {"a", "c", "d", "e", "f", "h", "p", "s", "t", "w", "x", "T"}
WordChars == Letters \cup Digits \cup {"_"}          \* [a-zA-Z0-9_]
Whitespace == {" "}                                   \* [[:space:]]
DigitVal(c) == CHOOSE n \in 0 .. 9 : ToString(n) = c

RECURSIVE StripZeros(_)
StripZeros(d) == IF d # <<>> /\ d[1] = "0" THEN StripZeros(Tail(d)) ELSE d
RECURSIVE ParseInt(_)
\* parseInt(s, 10) / the shell's reading of a string of digits
ParseInt(d) == IF d = <<>> THEN 0 ELSE ParseInt(SubSeq(d, 1, Len(d) - 1)) * 10 + DigitVal(d[Len(d)])
RECURSIVE Decimal(_)
\* String(n) for n >= 0
Decimal(n) == IF n < 10 THEN <<ToString(n)>> ELSE Decimal(n \div 10) \o <<ToString(n % 10)>>

\* ---- firecracker-network.ts: what an index stands for ----
TapPrefix == <<"f", "c", "_", "t", "a", "p">>
\* line 138: `fc_tap${subnetIndex}`
TapName(idx) == TapPrefix \o Decimal(idx)
\* The end of the run of digits that starts at position p of t.
DigitRunEnd(t, p) ==
  CHOOSE q \in p .. Len(t) :
    /\ \A j \in p .. q : t[j] \in Digits
    /\ q = Len(t) \/ t[q + 1] \notin Digits
\* lines 180-184: tapName.match(/fc_tap(\d+)/) and parseInt(match[1], 10);
\* -1 stands for the thrown "Invalid TAP name".
ParseTapIndexOneDigit(tapName) ==
  LET starts == {p \in 1 .. Len(tapName) - 6 :
                   SubSeq(tapName, p, p + 5) = TapPrefix /\ tapName[p + 6] \in Digits}
  IN IF starts = {} THEN -1
     ELSE LET p == CHOOSE x \in starts : \A y \in starts : x <= y
          IN ParseInt(SubSeq(tapName, p + 6, p + 6))
ParseTapIndex(tapName) ==
  LET starts == {p \in 1 .. Len(tapName) - 6 :
                   SubSeq(tapName, p, p + 5) = TapPrefix /\ tapName[p + 6] \in Digits}
  IN IF starts = {} THEN -1
     ELSE LET p == CHOOSE x \in starts : \A y \in starts : x <= y
          IN ParseInt(SubSeq(tapName, p + 6, DigitRunEnd(tapName, p + 6)))
Octet2(idx) == ((idx * 4) \div 256) % 256
Octet3Unscaled(idx) == idx % 256
Octet3(idx) == (idx * 4) % 256
HostIpOf(idx) == <<172, 16, Octet2(idx), Octet3(idx) + 1>>
GuestIpOf(idx) == <<172, 16, Octet2(idx), Octet3(idx) + 2>>
generateMac(idx) == <<2, 252, 0, 0, (idx \div 256) % 256, idx % 256>>
TapAllocation(idx) ==
  [tapName |-> TapName(idx), guestIp |-> GuestIpOf(idx), hostIp |-> HostIpOf(idx),
   guestMac |-> generateMac(idx), subnetIndex |-> idx]
NoTap == [subnetIndex |-> -1]
\* recreateTap, lines 174-189 and 210: the allocation rebuilt from a TAP name
RecreateAllocation(tapName, guestIp, guestMac) ==
  [tapName |-> tapName, guestIp |-> guestIp, hostIp |-> HostIpOf(ParseTapIndex(tapName)),
   guestMac |-> guestMac, subnetIndex |-> ParseTapIndex(tapName)]

\* allocateTap, lines 120-126.  The loop steps over reserved indices, so it
\* stops at the least index from i on that is not reserved: i + n when the n
\* reserved indices are exactly i .. i+n-1, an index below i + n otherwise.
LeastFree(reserved, i) ==
  LET n == Cardinality(reserved) IN
    IF (i .. (i + n - 1)) \subseteq reserved THEN i + n
    ELSE CHOOSE j \in i .. (i + n - 1) :
           j \notin reserved /\ \A k \in i .. (j - 1) : k \in reserved
\* line 123: the loop throws "No more available subnets" (-1 here) as soon as
\* the index it has stepped to reaches 16384.
FindFreeIndexUnchecked(reserved, i) == i
FindFreeIndexNoLimit(reserved, i) == LeastFree(reserved, i)
FindFreeIndex(reserved, i) ==
  IF LeastFree(reserved, i) >= MAX_SUBNETS THEN -1 ELSE LeastFree(reserved, i)

VARIABLES
  \* host state
  allocatedSubnets,   \* the module-level Set<number> of firecracker-network.ts
  tapDev,             \* [Idx -> creator]: which start created device fc_tap<i>
  natRules,           \* [Idx -> Nat]: copies of the NAT rule set for index i
  dirs,               \* existing directories below the snapshot root
  files,              \* [path -> content] of the existing files
  hv,                 \* [VMs -> the hypervisor process of that VM]
  listeners,          \* [host port with an open proxy listener -> where it connects to]
  \* startFirecrackerSandbox's and the instance's own state, per VM
  pc,                 \* where the VM's current call is suspended
  opt,                \* options.snapshotId of the start
  tap,                \* the start's `tap` variable, then the instance's
  cur,                \* the allocation allocateTap/recreateTap is setting up
  relArg,             \* the allocation releaseTap was called with
  ret,                \* who awaits the allocator call in progress
  snapshotMeta,       \* the start's parsed metadata.json, or NoMeta
  vmRootfs,           \* the start's vmRootfs path
  fcPid,              \* the start's fcPid (0: undefined)
  proxies,            \* portMappings / proxyCleanups, in creation order
  stopped,            \* the instance's `stopped` flag
  destroying,         \* the stop() in progress was called by destroy()
  snapArg,            \* the snapshotId of the snapshot() in progress
  startErr,           \* the error the start call returned ("" if none)
  \* history of the run
  live,               \* allocations returned to the VM's code, not yet released
  reservedBy,         \* indices the VM's allocator call reserved and still holds
  log,                \* the steps the call in progress has attempted, in order
  count,              \* per instance: how often each cleanup step of stop() ran
  stopCalls,          \* stop()/destroy() calls made on the instance
  snapCalls,          \* snapshot() calls made so far
  torn,               \* snapshot ids whose last snapshot() met a file-system error
  budget,             \* failures that may still be injected
  \* one run of scripts/fc-helper.sh and the process table it reads
  procTable,          \* [Pids -> the process holding that PID, or NoProc]
  helper,             \* the kill subcommand between reading comm and signalling
  argv,               \* <<COMMAND, positional arguments>> of the last run
  validated,          \* argument positions a validate_* function accepted
  ran,                \* the privileged commands the last run executed, in order
  exitCode,           \* exit status of the last run (-1: none yet)
  signals,            \* history: every signal a kill subcommand delivered
  \* FirecrackerSandboxInstance.exec
  execs,              \* [VMs -> the exec() call on that instance and its result]
  \* a caller that uses the allocator directly
  before,             \* history: the reserved set when its last allocateTap began
  \* FirecrackerSandboxInstance.pause / resume, which may overlap other calls
  ctl,                \* [VMs -> the pause() or resume() call in progress, or "idle"]
  isPaused,           \* [VMs -> the instance's `_paused` flag]
  \* firecracker-api.ts: one control call on its own
  control,            \* the request, the hypervisor's answer and what the call did
  \* waitForSocket / waitForSandboxd: the poll loop of the wait in progress
  poll,               \* its position, the time since its start and its timeout
  \* startPortProxy: the connections the proxies have accepted
  relay,              \* the socket pairs, in the order they were accepted
  \* scripts/fc-helper.sh: one validator applied to one argument
  verdict,            \* the validator, the argument and whether it was accepted
  \* history of the snapshots
  complete,           \* ids whose snapshot() has returned normally, not deleted since
  \* history of the allocateTap / recreateTap in progress
  made,               \* [VMs -> what the call has left on the host so far]
  \* history of deleteSnapshot
  deletion            \* how many calls were made, the last id, and whether it threw

hostVars == <<allocatedSubnets, tapDev, natRules, dirs, files, hv, listeners>>
startVars == <<opt, tap, cur, relArg, ret, snapshotMeta, vmRootfs, fcPid, proxies, startErr>>
instVars == <<stopped, destroying, snapArg, stopCalls, count>>
histVars == <<live, reservedBy, log, torn>>
Ports == SubSeq(CONTAINER_PORTS, 1, NumPorts)
gwVars == <<procTable, helper, argv, validated, ran, exitCode, signals>>
\* what the orchestration itself never touches
ctlVars == <<ctl, isPaused>>
\* the parts of the program that are checked on their own
unitVars == <<control, poll, relay, verdict>>
\* what no step of a start, a stop or a rollback touches
restVars == <<gwVars, execs, before, ctlVars, unitVars>>
otherVars == <<restVars, complete, made, deletion>>
\* what the gateway steps of allocateTap / recreateTap leave alone
nonMade == <<restVars, complete, deletion>>
nonGwVars == <<hostVars, pc, startVars, instVars, histVars, snapCalls, budget, execs, before,
               ctlVars, unitVars, complete, made, deletion>>
vars == <<hostVars, pc, startVars, instVars, histVars, snapCalls, budget, gwVars, execs, before,
          ctlVars, unitVars, complete, made, deletion>>
Returned(v) == pc[v] \in {"idle", "up", "failed"}
\* The arguments, locals and results of a call are kept until the next call
\* begins; then those of the calls that have returned are forgotten.
Forget(f, blank) == [w \in VMs |-> IF Returned(w) THEN blank ELSE f[w]]

NoMeta == [kind |-> "none"]
NoPath == <<>>
NoCount == [kill |-> 0, proxies |-> 0, release |-> 0, unlink |-> 0]
HvNone == [state |-> "none", tapName |-> <<>>, guestIp |-> <<>>, guestMac |-> <<>>, disk |-> <<>>]

\* The state right after the server process has loaded its modules: the scan
\* of lines 31-49 has reserved the index of every fc_tap device on the host.
NoBefore == [by |-> 0, set |-> {}, phase |-> "none"]
NoControl == [pc |-> "idle", call |-> 0, status |-> 0, body |-> <<>>, threw |-> FALSE,
              message |-> <<>>]
\* The allocator call in progress has created no device and added no rule.
NoMade == [tap |-> FALSE, nat |-> 0]
\* deleteSnapshot has not been called.
NoDeletion == [calls |-> 0, id |-> <<>>, threw |-> FALSE]
\* No validator has been applied.
NoVerdict == [validator |-> "none", arg |-> <<>>, accepted |-> FALSE]
\* No wait is in progress.
NoPoll == [pc |-> "idle", kind |-> "none", by |-> 0, elapsed |-> 0, ok |-> FALSE,
           timeoutMs |-> 0]
\* No exec() call has been made.
NoResult == [threw |-> FALSE, exit_code |-> -1, stdout |-> <<>>, stderr |-> <<>>]
NoExec == [pc |-> "idle", status |-> 0, body |-> <<>>, out |-> NoResult]

\* No run of fc-helper.sh has been made; no process of interest exists.
Pids == 1 .. NumPids
NoProc == [comm |-> "", vm |-> 0]
HelperIdle == [pc |-> "idle", pid |-> 0, comm |-> "", by |-> 0]
GwInit ==
  /\ procTable = [p \in Pids |-> NoProc]
  /\ helper = HelperIdle
  /\ argv = <<>>
  /\ validated = {}
  /\ ran = <<>>
  /\ exitCode = -1
  /\ signals = {}

\* part_013 lines 31-49, run once when the module is loaded: every device
\* named fc_tap<N> reserves N; when the listing command throws, the catch of
\* lines 47-49 leaves the set empty.
ScanTapDevices(devices, scanned) == IF scanned THEN devices ELSE {}

\* The files of a snapshot that an instance of an earlier run of the process,
\* holding the allocation of index k, has written (instance lines 186-201);
\* the directory of that instance is gone.
EarlierVm == 0
StoredSnapshot(fs, s, k) ==
  LET a == TapAllocation(k) IN
  WriteFile(WriteFile(WriteFile(WriteFile(fs,
    SnapshotBin(s), [kind |-> "snapshot", tapName |-> a.tapName, guestIp |-> a.guestIp,
                     guestMac |-> a.guestMac, disk |-> DefaultRootfs(EarlierVm)]),
    MemBin(s), [kind |-> "mem", by |-> EarlierVm]),
    SnapshotRootfs(s), [kind |-> "rootfs", by |-> EarlierVm]),
    MetadataPath(s), [kind |-> "metadata", originalRootfsPath |-> DefaultRootfs(EarlierVm),
                      tapName |-> a.tapName, guestIp |-> a.guestIp, guestMac |-> a.guestMac])
RECURSIVE StoredFiles(_, _)
StoredFiles(fs, stored) ==
  IF DOMAIN stored = {} THEN fs
  ELSE LET s == CHOOSE x \in DOMAIN stored : TRUE IN
       StoredFiles(StoredSnapshot(fs, s, stored[s]),
                   [x \in DOMAIN stored \ {s} |-> stored[x]])

\* `stored` maps the id of every snapshot found on the disk to the index its
\* instance held.
InitFrom(orphans, scanned, b, given, missing, stored) ==
    /\ allocatedSubnets = ScanTapDevices(orphans, scanned)
    /\ tapDev = [i \in Idx |-> IF i \in orphans THEN Orphan ELSE NoCreator]
    /\ natRules = [i \in Idx |-> 0]
    /\ dirs = {SnapshotDirOf(s) : s \in DOMAIN stored}
    /\ files = StoredFiles([p \in Prerequisites \ missing |->
                              [kind |-> IF p = BaseRootfs THEN "rootfs" ELSE "program",
                               by |-> 0]], stored)
    /\ hv = [v \in VMs |-> HvNone]
    /\ listeners = <<>>
    /\ pc = [v \in VMs |-> "idle"]
    /\ opt = [v \in VMs |-> NoSnapshot]
    /\ tap = [v \in VMs |-> IF v = 1 THEN given ELSE NoTap]
    /\ cur = [v \in VMs |-> NoTap]
    /\ relArg = [v \in VMs |-> NoTap]
    /\ ret = [v \in VMs |-> ""]
    /\ snapshotMeta = [v \in VMs |-> NoMeta]
    /\ vmRootfs = [v \in VMs |-> NoPath]
    /\ fcPid = [v \in VMs |-> 0]
    /\ proxies = [v \in VMs |-> <<>>]
    /\ stopped = [v \in VMs |-> FALSE]
    /\ destroying = [v \in VMs |-> FALSE]
    /\ snapArg = [v \in VMs |-> NoSnapshot]
    /\ startErr = [v \in VMs |-> ""]
    /\ live = [v \in VMs |-> {}]
    /\ reservedBy = [v \in VMs |-> {}]
    /\ log = [v \in VMs |-> <<>>]
    /\ count = [v \in VMs |-> NoCount]
    /\ stopCalls = [v \in VMs |-> 0]
    /\ torn = {}
    /\ snapCalls = 0
    /\ budget = b
    /\ GwInit
    /\ execs = [v \in VMs |-> NoExec]
    /\ before = NoBefore
    /\ ctl = [v \in VMs |-> "idle"]
    /\ isPaused = [v \in VMs |-> FALSE]
    /\ control = NoControl
    /\ poll = NoPoll
    /\ relay = <<>>
    /\ verdict = NoVerdict
    /\ complete = DOMAIN stored
    /\ made = [v \in VMs |-> NoMade]
    /\ deletion = NoDeletion
\* The process starts with no allocation in anybody's hands.
InitWith(orphans, scanned, b) == InitFrom(orphans, scanned, b, NoTap, {}, <<>>)

\* No fc_tap device is left over from an earlier run.
Init == InitWith({}, TRUE, MaxFaults)
\* Some fc_tap devices are left over from an earlier run; the scan of the
\* devices either returns or throws (a throw with no device is no other state).
InitHost ==
  \E orphans \in SUBSET (0 .. MaxOrphans - 1) :
    \E scanned \in (IF orphans = {} THEN {TRUE} ELSE BOOLEAN) :
      InitWith(orphans, scanned, MaxFaults)
InitChain == InitWith({}, TRUE, ChainFaults)


\* ---- outcomes of the awaited calls ----
\* A call succeeds only if `possible`; it fails when it is not possible, and
\* it may fail although possible (sudo, the network, the hypervisor, the disk)
\* as often as the budget of the run allows.
Succeeds(possible) == possible /\ UNCHANGED <<budget, snapCalls>>
Fails(possible) ==
  /\ ~possible \/ budget > 0
  /\ budget' = IF possible THEN budget - 1 ELSE budget
  /\ UNCHANGED snapCalls
\* A call whose error the caller ignores or only logs: ok or not.
Outcome(ok) == IF ok THEN Succeeds(TRUE) ELSE Fails(TRUE)

\* ---- fc-helper.sh: what a subcommand leaves on the host ----
\* tap-delete (lines 146-154): both `ip` commands end in `|| true`, so the
\* command reports success whether or not the device went away, and every
\* caller ignores or only logs a rejected call: the device is removed or kept.
TapDeleteOutcomes(i) == IF tapDev[i] = NoCreator THEN {"removed"} ELSE {"removed", "kept"}
TapDeleted(i, outcome) ==
  IF outcome = "removed" THEN [tapDev EXCEPT ![i] = NoCreator] ELSE tapDev
TapDelete(i) ==
  \E outcome \in TapDeleteOutcomes(i) :
    /\ tapDev' = TapDeleted(i, outcome)
    /\ Outcome(outcome = "removed")
\* nat-teardown (lines 175-187): each `iptables -D` removes one copy of a rule.
NatTornDown(i, ok) ==
  IF ok /\ natRules[i] > 0 THEN [natRules EXCEPT ![i] = @ - 1] ELSE natRules

\* allocatedSubnets.delete(idx), lines 157, 212 and 250
UnreserveNothing(reserved, idx) == reserved
Unreserve(reserved, idx) == reserved \ {idx}

\* ---- startFirecrackerSandbox: the catch block, lines 398-407 ----
\* The first await of the rollback: kill if a PID is known, else releaseTap.
PidNeverKnown(pid) == FALSE
PidKnown(pid) == pid # 0          \* line 401: fcPid !== undefined
BeginRollback(v, pid, t, e) ==
  /\ startErr' = [startErr EXCEPT ![v] = e]
  /\ IF PidKnown(pid)
       THEN /\ pc' = [pc EXCEPT ![v] = "rb_kill"]
            /\ UNCHANGED <<relArg, ret>>
       ELSE /\ pc' = [pc EXCEPT ![v] = "rel_iface"]
            /\ relArg' = [relArg EXCEPT ![v] = t]
            /\ ret' = [ret EXCEPT ![v] = "rollback"]

\* ---- allocateTap / recreateTap, after the index is reserved ----
\* lines 142-146 / 197-201: delete a stale device, errors ignored
SetupStaleDelete(v) ==
  /\ pc[v] = "setup_staledel"
  /\ TapDelete(cur[v].subnetIndex)
  /\ pc' = [pc EXCEPT ![v] = "setup_create"]
  /\ UNCHANGED <<allocatedSubnets, natRules, dirs, files, hv, listeners,
                 startVars, instVars, histVars>>
  /\ UNCHANGED otherVars

\* The catch of lines 156-158 / 211-212, up to its awaited tap-delete.
SetupFailed(v) ==
  /\ allocatedSubnets' = Unreserve(allocatedSubnets, cur[v].subnetIndex)
  /\ reservedBy' = [reservedBy EXCEPT ![v] = @ \ {cur[v].subnetIndex}]
  /\ pc' = [pc EXCEPT ![v] = "setup_cleanup"]

\* line 149 / 204: tap-create. `ip tuntap add`, `ip addr add`, `ip link set up`
\* run under `set -e`: a failure may leave the device behind.
SetupTapCreate(v) ==
  /\ pc[v] = "setup_create"
  /\ LET i == cur[v].subnetIndex IN
     \/ /\ Succeeds(tapDev[i] = NoCreator)
        /\ tapDev' = [tapDev EXCEPT ![i] = v]
        /\ made' = [made EXCEPT ![v].tap = TRUE]
        /\ pc' = [pc EXCEPT ![v] = "setup_iface"]
        /\ UNCHANGED <<allocatedSubnets, reservedBy>>
     \/ /\ Fails(tapDev[i] = NoCreator)
        /\ \E left \in (IF tapDev[i] = NoCreator THEN BOOLEAN ELSE {FALSE}) :
             /\ tapDev' = IF left THEN [tapDev EXCEPT ![i] = v] ELSE tapDev
             /\ made' = [made EXCEPT ![v].tap = left]
        /\ SetupFailed(v)
  /\ UNCHANGED <<natRules, dirs, files, hv, listeners, startVars, instVars, live, log, torn>>
  /\ UNCHANGED nonMade

\* line 152 / 207: getDefaultInterface
SetupDefaultInterface(v) ==
  /\ pc[v] = "setup_iface"
  /\ \/ /\ Succeeds(TRUE)
        /\ pc' = [pc EXCEPT ![v] = "setup_nat"]
        /\ UNCHANGED <<allocatedSubnets, reservedBy>>
     \/ Fails(TRUE) /\ SetupFailed(v)
  /\ UNCHANGED <<tapDev, natRules, dirs, files, hv, listeners, startVars, instVars, live, log, torn>>
  /\ UNCHANGED otherVars

\* line 153 / 208: nat-setup fails; the three `iptables -A` run under `set -e`.
SetupNatFails(v) ==
  /\ pc[v] = "setup_nat"
  /\ Fails(TRUE)
  /\ \E left \in BOOLEAN :
       /\ natRules' = IF left THEN [natRules EXCEPT ![cur[v].subnetIndex] = @ + 1]
                               ELSE natRules
       /\ made' = [made EXCEPT ![v].nat = IF left THEN 1 ELSE 0]
  /\ SetupFailed(v)
  /\ UNCHANGED <<tapDev, dirs, files, hv, listeners, startVars, instVars, live, log, torn>>
  /\ UNCHANGED nonMade

\* lines 159-164: the cleanup tap-delete of allocateTap, then `throw error`.
\* allocateTap is awaited at line 218, outside the try of line 226: the start
\* rejects with that error and nothing else runs.
AllocateThrows(v) ==
  /\ pc[v] = "setup_cleanup" /\ ret[v] = "allocate"
  /\ TapDelete(cur[v].subnetIndex)
  /\ pc' = [pc EXCEPT ![v] = "failed"]
  /\ startErr' = [startErr EXCEPT ![v] = "allocateTap"]
  /\ UNCHANGED <<allocatedSubnets, natRules, dirs, files, hv, listeners,
                 opt, tap, cur, relArg, ret, snapshotMeta, vmRootfs, fcPid, proxies,
                 instVars, histVars>>
  /\ made' = [made EXCEPT ![v] = NoMade]
  /\ UNCHANGED nonMade

\* lines 213-218: the cleanup tap-delete of recreateTap, then `throw error`,
\* caught at line 398 with `tap` still the allocation released at line 258.
RecreateThrows(v) ==
  /\ pc[v] = "setup_cleanup" /\ ret[v] = "recreate"
  /\ TapDelete(cur[v].subnetIndex)
  /\ BeginRollback(v, fcPid[v], tap[v], "recreateTap")
  /\ UNCHANGED <<allocatedSubnets, natRules, dirs, files, hv, listeners,
                 opt, tap, cur, snapshotMeta, vmRootfs, fcPid, proxies,
                 instVars, histVars>>
  /\ made' = [made EXCEPT ![v] = NoMade]
  /\ UNCHANGED nonMade

\* ---- releaseTap, lines 225-251 ----
\* line 227: getDefaultInterface; on error the nat-teardown is skipped.
ReleaseDefaultInterface(v) ==
  /\ pc[v] = "rel_iface"
  /\ \E ok \in BOOLEAN :
       /\ Outcome(ok)
       /\ pc' = [pc EXCEPT ![v] = IF ok THEN "rel_nat" ELSE "rel_tapdel"]
  /\ UNCHANGED <<hostVars, startVars, instVars, histVars>>
  /\ UNCHANGED otherVars

\* lines 228-233: nat-teardown, errors logged
ReleaseNatTeardown(v) ==
  /\ pc[v] = "rel_nat"
  /\ \E ok \in (IF natRules[relArg[v].subnetIndex] > 0 THEN BOOLEAN ELSE {TRUE}) :
       /\ Outcome(ok)
       /\ natRules' = NatTornDown(relArg[v].subnetIndex, ok)
  /\ pc' = [pc EXCEPT ![v] = "rel_tapdel"]
  /\ UNCHANGED <<allocatedSubnets, tapDev, dirs, files, hv, listeners,
                 startVars, instVars, histVars>>
  /\ UNCHANGED otherVars


\* What releaseTap does once its awaited tap-delete is over: line 250.
Released(v) ==
  /\ TapDelete(relArg[v].subnetIndex)
  /\ live' = [live EXCEPT ![v] = @ \ {relArg[v]}]

\* lines 199-208: the binary and the kernel must exist ("" if both do)
PrerequisiteError(fs) ==
  IF BinaryPath \notin DOMAIN fs THEN "Firecracker binary not found"
  ELSE IF KernelPath \notin DOMAIN fs THEN "Kernel not found"
  ELSE ""

\* ---- startFirecrackerSandbox, lines 191-226 ----
\* Up to the first await, which is inside allocateTap (line 143). The VM ids
\* are fresh, so the starts are numbered in the order they are called.
Start(v, s) ==
  /\ pc[v] = "idle"
  /\ \A w \in VMs : w < v => pc[w] # "idle"
  /\ opt' = [opt EXCEPT ![v] = s]
  /\ LET idx == FindFreeIndex(allocatedSubnets, 0) IN
       IF PrerequisiteError(files) # ""
         THEN /\ pc' = [pc EXCEPT ![v] = "failed"]
              /\ startErr' = [Forget(startErr, "") EXCEPT ![v] = PrerequisiteError(files)]
              /\ log' = Forget(log, <<>>)
              /\ UNCHANGED <<dirs, allocatedSubnets, cur, ret, reservedBy>>
       ELSE IF idx = -1
         THEN /\ dirs' = MkdirP(dirs, VmDir(v))
              /\ pc' = [pc EXCEPT ![v] = "failed"]
              /\ startErr' = [Forget(startErr, "") EXCEPT ![v] = "No more available subnets"]
              /\ log' = [Forget(log, <<>>) EXCEPT ![v] = <<"mkdir", "allocateTap">>]
              /\ UNCHANGED <<allocatedSubnets, cur, ret, reservedBy>>
         ELSE /\ dirs' = MkdirP(dirs, VmDir(v))
              /\ allocatedSubnets' = allocatedSubnets \cup {idx}
              /\ reservedBy' = [reservedBy EXCEPT ![v] = @ \cup {idx}]
              /\ cur' = [cur EXCEPT ![v] = TapAllocation(idx)]
              /\ ret' = [ret EXCEPT ![v] = "allocate"]
              /\ pc' = [pc EXCEPT ![v] = "setup_staledel"]
              /\ startErr' = Forget(startErr, "")
              /\ log' = [Forget(log, <<>>) EXCEPT ![v] = <<"mkdir", "allocateTap">>]
  /\ snapArg' = Forget(snapArg, NoSnapshot)
  /\ UNCHANGED <<tapDev, natRules, files, hv, listeners, tap, relArg, snapshotMeta,
                 vmRootfs, fcPid, proxies, stopped, destroying, stopCalls, count, live, torn,
                 snapCalls, budget>>
  /\ UNCHANGED otherVars

\* lines 248-254: JSON.parse of metadata.json, {} when it cannot be read
ReadMetadata(s) ==
  IF MetadataPath(s) \in DOMAIN files THEN files[MetadataPath(s)] ELSE NoMeta
\* line 257: all three of tapName, guestIp, guestMac are present
HasNetworkMetaNever(m) == FALSE
HasNetworkMeta(m) == {"tapName", "guestIp", "guestMac"} \subseteq DOMAIN m
\* line 267: snapshotMeta.originalRootfsPath ?? path.join(vmDir, "rootfs.ext4")
RestoreRootfs(v, m) ==
  IF "originalRootfsPath" \in DOMAIN m THEN m.originalRootfsPath ELSE DefaultRootfs(v)
\* lines 268-270: the directory of originalRootfsPath is created
RestoreDirs(ds, m) ==
  IF "originalRootfsPath" \in DOMAIN m THEN MkdirP(ds, Dirname(m.originalRootfsPath)) ELSE ds

\* allocateTap returns (line 155) and the start runs on into its try block:
\* fresh boot up to the copyRootfs of line 295, restore up to the releaseTap
\* of line 258 or, without network metadata, the copyRootfs of line 271.
AllocateReturns(v) ==
  /\ pc[v] = "setup_nat" /\ ret[v] = "allocate"
  /\ natRules' = [natRules EXCEPT ![cur[v].subnetIndex] = @ + 1]
  /\ Succeeds(TRUE)
  /\ tap' = [tap EXCEPT ![v] = cur[v]]
  /\ live' = [live EXCEPT ![v] = @ \cup {cur[v]}]
  /\ IF opt[v] = NoSnapshot
       THEN IF BaseRootfs \notin DOMAIN files
              THEN /\ BeginRollback(v, fcPid[v], cur[v], "Base rootfs not found")
                   /\ UNCHANGED <<snapshotMeta, vmRootfs, log>>
              ELSE /\ vmRootfs' = [vmRootfs EXCEPT ![v] = DefaultRootfs(v)]
                   /\ pc' = [pc EXCEPT ![v] = "copy"]
                   /\ log' = [log EXCEPT ![v] = Append(@, "copyRootfs")]
                   /\ UNCHANGED <<snapshotMeta, relArg, ret, startErr>>
       ELSE IF SnapshotBin(opt[v]) \notin DOMAIN files
              THEN /\ BeginRollback(v, fcPid[v], cur[v], "Snapshot not found")
                   /\ UNCHANGED <<snapshotMeta, vmRootfs, log>>
              ELSE LET m == ReadMetadata(opt[v]) IN
                   /\ snapshotMeta' = [snapshotMeta EXCEPT ![v] = m]
                   /\ IF HasNetworkMeta(m)
                        THEN /\ pc' = [pc EXCEPT ![v] = "rel_iface"]
                             /\ relArg' = [relArg EXCEPT ![v] = cur[v]]
                             /\ ret' = [ret EXCEPT ![v] = "discard"]
                             /\ log' = [log EXCEPT ![v] = Append(@, "releaseTap")]
                             /\ UNCHANGED <<vmRootfs, startErr>>
                        ELSE /\ vmRootfs' = [vmRootfs EXCEPT ![v] = RestoreRootfs(v, m)]
                             /\ pc' = [pc EXCEPT ![v] = "copy"]
                             /\ log' = [log EXCEPT ![v] = Append(@, "copyRootfs")]
                             /\ UNCHANGED <<relArg, ret, startErr>>
  /\ dirs' = IF opt[v] # NoSnapshot /\ SnapshotBin(opt[v]) \in DOMAIN files
                  /\ ~HasNetworkMeta(ReadMetadata(opt[v]))
               THEN RestoreDirs(dirs, ReadMetadata(opt[v])) ELSE dirs
  /\ UNCHANGED <<allocatedSubnets, tapDev, files, hv, listeners, opt, cur, fcPid,
                 proxies, instVars, reservedBy, torn>>
  /\ made' = [made EXCEPT ![v] = NoMade]
  /\ UNCHANGED nonMade

\* The releaseTap of line 258 is over; recreateTap (lines 174-193) runs up to
\* its first await: it reserves the index parsed from the recorded TAP name.
DiscardDoneRecreate(v) ==
  /\ pc[v] = "rel_tapdel" /\ ret[v] = "discard"
  /\ Released(v)
  /\ LET m == snapshotMeta[v]
         idx == ParseTapIndex(m.tapName)
     IN /\ allocatedSubnets' = Unreserve(allocatedSubnets, relArg[v].subnetIndex) \cup {idx}
        /\ reservedBy' = [reservedBy EXCEPT ![v] = (@ \ {relArg[v].subnetIndex}) \cup {idx}]
        /\ cur' = [cur EXCEPT ![v] = RecreateAllocation(m.tapName, m.guestIp, m.guestMac)]
  /\ ret' = [ret EXCEPT ![v] = "recreate"]
  /\ pc' = [pc EXCEPT ![v] = "setup_staledel"]
  /\ log' = [log EXCEPT ![v] = Append(@, "recreateTap")]
  /\ UNCHANGED <<natRules, dirs, files, hv, listeners, opt, tap, relArg, snapshotMeta,
                 vmRootfs, fcPid, proxies, startErr, instVars, torn>>
  /\ UNCHANGED otherVars

\* recreateTap returns (line 210); lines 263-271 up to the awaited copyRootfs.
RecreateReturns(v) ==
  /\ pc[v] = "setup_nat" /\ ret[v] = "recreate"
  /\ natRules' = [natRules EXCEPT ![cur[v].subnetIndex] = @ + 1]
  /\ Succeeds(TRUE)
  /\ tap' = [tap EXCEPT ![v] = cur[v]]
  /\ live' = [live EXCEPT ![v] = @ \cup {cur[v]}]
  /\ vmRootfs' = [vmRootfs EXCEPT ![v] = RestoreRootfs(v, snapshotMeta[v])]
  /\ dirs' = RestoreDirs(dirs, snapshotMeta[v])
  /\ pc' = [pc EXCEPT ![v] = "copy"]
  /\ log' = [log EXCEPT ![v] = Append(@, "copyRootfs")]
  /\ UNCHANGED <<allocatedSubnets, tapDev, files, hv, listeners, opt, cur, relArg, ret,
                 snapshotMeta, fcPid, proxies, startErr, instVars, reservedBy, torn>>
  /\ made' = [made EXCEPT ![v] = NoMade]
  /\ UNCHANGED nonMade

\* copyRootfs (line 271 / 295): `cp` of fc-helper.sh lines 240-249
CopySource(v) == IF opt[v] = NoSnapshot THEN BaseRootfs ELSE SnapshotRootfs(opt[v])
CopyPossible(v) == CopySource(v) \in DOMAIN files /\ Dirname(vmRootfs[v]) \in dirs
CopyRootfs(v) ==
  /\ pc[v] = "copy"
  /\ \/ /\ Succeeds(CopyPossible(v))
        /\ files' = WriteFile(files, vmRootfs[v], [kind |-> "rootfs", by |-> v])
        /\ pc' = [pc EXCEPT ![v] = "spawn"]
        /\ log' = [log EXCEPT ![v] = Append(@, "spawn")]
        /\ UNCHANGED <<relArg, ret, startErr>>
     \/ /\ Fails(CopyPossible(v))
        /\ BeginRollback(v, fcPid[v], tap[v], "copyRootfs")
        /\ UNCHANGED <<files, log>>
  /\ UNCHANGED <<allocatedSubnets, tapDev, natRules, dirs, hv, listeners, opt, tap, cur,
                 snapshotMeta, vmRootfs, fcPid, proxies, instVars, live, reservedBy, torn>>
  /\ UNCHANGED otherVars


\* ---- the hypervisor process and its control socket ----
PidOf(v) == v
HvAlive(v) == hv[v].state \in {"unconfigured", "configured", "running", "paused"}
\* A control request can be answered 200/204 only by a live process whose
\* socket file is still in place.
Reachable(v) == HvAlive(v) /\ SocketPath(v) \in DOMAIN files
\* fc-helper.sh kill, lines 224-238: signals only a process named firecracker
Killed(v, ok) == IF ok /\ HvAlive(v) THEN [hv EXCEPT ![v].state = "dead"] ELSE hv

\* spawnFirecracker (line 274 / 298): fc-helper.sh spawn, lines 98-130, removes
\* a stale socket, starts the process with its log in the VM directory and
\* prints the PID.
Spawn(v) ==
  /\ pc[v] = "spawn"
  /\ \/ /\ Succeeds(VmDir(v) \in dirs)
        /\ hv' = [hv EXCEPT ![v].state = "unconfigured"]
        /\ files' = WriteFile(WriteFile(files, SocketPath(v), [kind |-> "socket", by |-> v]),
                              LogPath(v), [kind |-> "log", by |-> v])
        /\ fcPid' = [fcPid EXCEPT ![v] = PidOf(v)]
        /\ pc' = [pc EXCEPT ![v] = "waitsock"]
        /\ log' = [log EXCEPT ![v] = Append(@, "waitForSocket")]
        /\ UNCHANGED <<relArg, ret, startErr>>
     \/ /\ Fails(VmDir(v) \in dirs)
        /\ BeginRollback(v, fcPid[v], tap[v], "spawn")
        /\ UNCHANGED <<hv, files, fcPid, log>>
  /\ UNCHANGED <<allocatedSubnets, tapDev, natRules, dirs, listeners, opt, tap, cur,
                 snapshotMeta, vmRootfs, proxies, instVars, live, reservedBy, torn>>
  /\ UNCHANGED otherVars

\* what the start does once waitForSocket (line 277 / 301) has returned, and
\* once it has thrown
SocketWaitReturned(v) ==
  /\ pc' = [pc EXCEPT ![v] = IF opt[v] = NoSnapshot THEN "boot_source" ELSE "load"]
  /\ log' = [log EXCEPT ![v] =
               Append(@, IF opt[v] = NoSnapshot THEN "boot-source" ELSE "loadSnapshot")]
  /\ UNCHANGED <<relArg, ret, startErr>>
SocketWaitThrew(v) ==
  /\ BeginRollback(v, fcPid[v], tap[v], "waitForSocket")
  /\ UNCHANGED log
\* waitForSocket as one step, firecracker-api.ts lines 67-92
WaitForSocket(v) ==
  /\ pc[v] = "waitsock"
  /\ \/ Succeeds(Reachable(v)) /\ SocketWaitReturned(v)
     \/ Fails(Reachable(v)) /\ SocketWaitThrew(v)
  /\ UNCHANGED <<hostVars, opt, tap, cur, snapshotMeta, vmRootfs, fcPid, proxies,
                 instVars, live, reservedBy, torn>>
  /\ UNCHANGED otherVars

\* loadSnapshot (line 280) with resume_vm = true. The hypervisor comes up with
\* the device name, MAC and disk path recorded in snapshot.bin, and can do so
\* only if that device and that file exist.
LoadPossible(v) ==
  /\ Reachable(v) /\ hv[v].state = "unconfigured"
  /\ SnapshotBin(opt[v]) \in DOMAIN files /\ MemBin(opt[v]) \in DOMAIN files
  /\ tapDev[ParseTapIndex(files[SnapshotBin(opt[v])].tapName)] # NoCreator
  /\ files[SnapshotBin(opt[v])].disk \in DOMAIN files
LoadSnapshot(v) ==
  /\ pc[v] = "load"
  /\ \/ /\ Succeeds(LoadPossible(v))
        /\ LET b == files[SnapshotBin(opt[v])] IN
             /\ hv' = [hv EXCEPT ![v] = [state |-> "running", tapName |-> b.tapName,
                                          guestIp |-> b.guestIp, guestMac |-> b.guestMac,
                                          disk |-> b.disk]]
        /\ pc' = [pc EXCEPT ![v] = "proxy"]
        /\ log' = [log EXCEPT ![v] = Append(@, "startPortProxy")]
        /\ UNCHANGED <<relArg, ret, startErr>>
     \/ /\ Fails(LoadPossible(v))
        /\ BeginRollback(v, fcPid[v], tap[v], "loadSnapshot")
        /\ UNCHANGED <<hv, log>>
  /\ UNCHANGED <<allocatedSubnets, tapDev, natRules, dirs, files, listeners, opt, tap, cur,
                 snapshotMeta, vmRootfs, fcPid, proxies, instVars, live, reservedBy, torn>>
  /\ UNCHANGED otherVars

\* configureAndBoot (lines 307-338), firecracker-api.ts lines 130-212: one
\* request at a time, the first status other than 200/204 throws.
BootRequests == <<"boot_source", "boot_drive", "boot_machine", "boot_netif", "boot_action">>
BootPaths == <<"boot-source", "drives", "machine-config", "network-interfaces", "actions">>
BootApplied(v, k) ==
  IF k = 1 THEN [hv EXCEPT ![v].state = "configured", ![v].guestIp = tap[v].guestIp]
  ELSE IF k = 2 THEN [hv EXCEPT ![v].disk = vmRootfs[v]]
  ELSE IF k = 4 THEN [hv EXCEPT ![v].tapName = tap[v].tapName, ![v].guestMac = tap[v].guestMac]
  ELSE IF k = 5 THEN [hv EXCEPT ![v].state = "running"]
  ELSE hv
BootPossible(v, k) ==
  /\ Reachable(v)
  /\ k = 5 => /\ hv[v].disk \in DOMAIN files
              /\ tapDev[ParseTapIndex(hv[v].tapName)] # NoCreator
ConfigureAndBoot(v) ==
  \E k \in 1 .. 5 :
    /\ pc[v] = BootRequests[k]
    /\ \/ /\ Succeeds(BootPossible(v, k))
          /\ hv' = BootApplied(v, k)
          /\ pc' = [pc EXCEPT ![v] = IF k < 5 THEN BootRequests[k + 1] ELSE "proxy"]
          /\ log' = [log EXCEPT ![v] = Append(@, IF k < 5 THEN BootPaths[k + 1] ELSE "startPortProxy")]
          /\ UNCHANGED <<relArg, ret, startErr>>
       \/ /\ Fails(BootPossible(v, k))
          /\ BeginRollback(v, fcPid[v], tap[v], BootPaths[k])
          /\ UNCHANGED <<hv, log>>
    /\ UNCHANGED <<allocatedSubnets, tapDev, natRules, dirs, files, listeners, opt, tap, cur,
                   snapshotMeta, vmRootfs, fcPid, proxies, instVars, live, reservedBy, torn>>
    /\ UNCHANGED otherVars

\* startPortProxy (lines 348-353): server.listen(0) takes a port no listener
\* holds; the ports are numbered 1, 2, ... here.
FreePort == CHOOSE p \in 1 .. Cardinality(DOMAIN listeners) + 1 :
              p \notin DOMAIN listeners /\ \A q \in 1 .. p - 1 : q \in DOMAIN listeners
\* lines 349-350: the mapping pushed for the proxy that was just started
PortMappingOfFirst(hostPort, k) == [hostPort |-> hostPort, guestPort |-> Ports[1]]
PortMapping(hostPort, k) == [hostPort |-> hostPort, guestPort |-> Ports[k]]
\* line 348: the loop goes on to the next of the CONTAINER_PORTS
MoreProxiesNever(k) == FALSE
MoreProxies(k) == k < Len(Ports)
StartPortProxy(v) ==
  /\ pc[v] = "proxy"
  /\ LET k == Len(proxies[v]) + 1 IN
     \/ /\ Succeeds(TRUE)
        /\ listeners' = (FreePort :> [guestIp |-> tap[v].guestIp, guestPort |-> Ports[k]])
                           @@ listeners
        /\ proxies' = [proxies EXCEPT ![v] = Append(@, PortMapping(FreePort, k))]
        /\ pc' = [pc EXCEPT ![v] = IF MoreProxies(k) THEN "proxy" ELSE "health"]
        /\ log' = [log EXCEPT ![v] =
                     Append(@, IF MoreProxies(k) THEN "startPortProxy" ELSE "healthz")]
        /\ UNCHANGED <<relArg, ret, startErr>>
     \/ /\ Fails(TRUE)
        /\ BeginRollback(v, fcPid[v], tap[v], "startPortProxy")
        /\ UNCHANGED <<listeners, proxies, log>>
  /\ UNCHANGED <<allocatedSubnets, tapDev, natRules, dirs, files, hv, opt, tap, cur,
                 snapshotMeta, vmRootfs, fcPid, instVars, live, reservedBy, torn>>
  /\ UNCHANGED otherVars

\* what the start does once waitForSandboxd (line 357) has returned, and once
\* it has thrown
HealthWaitReturned(v) ==
  /\ pc' = [pc EXCEPT ![v] = "create_sandbox"]
  /\ log' = [log EXCEPT ![v] = Append(@, "createSandbox")]
  /\ UNCHANGED <<relArg, ret, startErr>>
HealthWaitThrew(v) ==
  /\ BeginRollback(v, fcPid[v], tap[v], "waitForSandboxd")
  /\ UNCHANGED log
\* waitForSandboxd as one step: the guest answers only while the VM runs
WaitForSandboxd(v) ==
  /\ pc[v] = "health"
  /\ \/ Succeeds(hv[v].state = "running") /\ HealthWaitReturned(v)
     \/ Fails(hv[v].state = "running") /\ HealthWaitThrew(v)
  /\ UNCHANGED <<hostVars, opt, tap, cur, snapshotMeta, vmRootfs, fcPid, proxies,
                 instVars, live, reservedBy, torn>>
  /\ UNCHANGED otherVars

\* createSandboxdContainer (line 364), then the instance is constructed
\* (lines 369-379) and returned.
CreateSandbox(v) ==
  /\ pc[v] = "create_sandbox"
  /\ \/ /\ Succeeds(hv[v].state = "running")
        /\ pc' = [pc EXCEPT ![v] = "up"]
        /\ log' = [log EXCEPT ![v] = <<>>]
        /\ UNCHANGED <<relArg, ret, startErr>>
     \/ /\ Fails(hv[v].state = "running")
        /\ BeginRollback(v, fcPid[v], tap[v], "createSandbox")
        /\ UNCHANGED log
  /\ UNCHANGED <<hostVars, opt, tap, cur, snapshotMeta, vmRootfs, fcPid, proxies,
                 instVars, live, reservedBy, torn>>
  /\ UNCHANGED otherVars

\* ---- what a successful start returns, lines 344-397, and getHostPort ----
\* instance line 257: portMappings.find((m) => m.guestPort === guestPort)?.hostPort,
\* with -1 for undefined
getHostPort(portMappings, guestPort) ==
  LET hits == {k \in 1 .. Len(portMappings) : portMappings[k].guestPort = guestPort}
  IN IF hits = {} THEN -1
     ELSE portMappings[CHOOSE k \in hits : \A j \in hits : k <= j].hostPort
\* line 351: hostPorts[containerPort] = String(proxy.hostPort), a later
\* assignment to the same key replacing an earlier one
RECURSIVE HostPortsMap(_)
HostPortsMap(portMappings) ==
  IF portMappings = <<>> THEN <<>>
  ELSE LET n == Len(portMappings) IN
         (portMappings[n].guestPort :> Decimal(portMappings[n].hostPort))
           @@ HostPortsMap(SubSeq(portMappings, 1, n - 1))
\* lines 384-396: the ports that are given a URL (vscode, worker, proxy, vnc, pty)
UrlPorts == {39378, 39377, 39379, 39380, 39383}
\* lines 381-382: `http://${sandboxHost}:${hostPorts[port]}`
makeUrl(hostPorts, port) ==
  <<"http://", "localhost", ":">>
    \o (IF port \in DOMAIN hostPorts THEN hostPorts[port] ELSE <<"undefined">>)

\* ---- the rollback, lines 398-407 and 413-434 ----
\* killFirecracker (lines 113-135) logs its error; then releaseTapSafe(tap).
RollbackKill(v) ==
  /\ pc[v] = "rb_kill"
  /\ \E ok \in (IF HvAlive(v) THEN BOOLEAN ELSE {TRUE}) : Outcome(ok) /\ hv' = Killed(v, ok)
  /\ pc' = [pc EXCEPT ![v] = "rel_iface"]
  /\ relArg' = [relArg EXCEPT ![v] = tap[v]]
  /\ ret' = [ret EXCEPT ![v] = "rollback"]
  /\ log' = [log EXCEPT ![v] = Append(@, "kill")]
  /\ UNCHANGED <<allocatedSubnets, tapDev, natRules, dirs, files, listeners, opt, tap, cur,
                 snapshotMeta, vmRootfs, fcPid, proxies, startErr, instVars, live, reservedBy, torn>>
  /\ UNCHANGED otherVars

\* releaseTapSafe is over; cleanupVmDir (lines 423-434) and `throw error`.
cleanupVmDirFiles(fs, v) == RmFiles(Unlink(fs, SocketPath(v)), VmDir(v))
\* The cleanup steps of the catch block whose failure was caught and logged
\* (killFirecracker lines 128-133, releaseTap lines 234-238): the process
\* outlived the kill, the NAT rules outlived the teardown.
CleanupErrors(v) ==
  {e \in {"kill"} : PidKnown(fcPid[v]) /\ HvAlive(v)}
    \cup {e \in {"nat-teardown"} : natRules[relArg[v].subnetIndex] > 0}
\* line 405: `throw error`, the value caught at line 398
ThrownLastError(error, cleanupErrors) ==
  IF cleanupErrors = {} THEN error ELSE CHOOSE e \in cleanupErrors : TRUE
Thrown(error, cleanupErrors) == error
RollbackDone(v) ==
  /\ pc[v] = "rel_tapdel" /\ ret[v] = "rollback"
  /\ Released(v)
  /\ allocatedSubnets' = Unreserve(allocatedSubnets, relArg[v].subnetIndex)
  /\ reservedBy' = [reservedBy EXCEPT ![v] = @ \ {relArg[v].subnetIndex}]
  /\ files' = cleanupVmDirFiles(files, v)
  /\ dirs' = RmDirs(dirs, VmDir(v))
  /\ pc' = [pc EXCEPT ![v] = "failed"]
  /\ log' = [log EXCEPT ![v] = Append(@, "cleanupVmDir")]
  /\ startErr' = [startErr EXCEPT ![v] = Thrown(@, CleanupErrors(v))]
  /\ UNCHANGED <<natRules, hv, listeners, opt, tap, cur, relArg, ret, snapshotMeta, vmRootfs,
                 fcPid, proxies, instVars, torn>>
  /\ UNCHANGED otherVars


\* ---- FirecrackerSandboxInstance, firecracker-sandbox-instance.ts ----
RootfsPath(v) == DefaultRootfs(v)       \* provider line 375
Bump(c, step, n) == [c EXCEPT ![step] = @ + n]
\* line 105: `if (this.stopped) return;`
AlreadyStoppedNever(flag) == FALSE
AlreadyStopped(flag) == flag

\* stop(), lines 104-125, up to the awaited kill; an instance that is already
\* stopped returns at once.
StopCall(v) ==
  /\ pc[v] = "up" /\ stopCalls[v] < MaxStopCalls
  /\ stopCalls' = [stopCalls EXCEPT ![v] = @ + 1]
  /\ IF AlreadyStopped(stopped[v])
       THEN /\ log' = Forget(log, <<>>)
            /\ UNCHANGED <<pc, stopped>>
       ELSE /\ stopped' = [stopped EXCEPT ![v] = TRUE]
            /\ pc' = [pc EXCEPT ![v] = "st_kill"]
            /\ log' = [Forget(log, <<>>) EXCEPT ![v] = <<"stop", "kill">>]
  /\ startErr' = Forget(startErr, "")
  /\ snapArg' = Forget(snapArg, NoSnapshot)
  /\ UNCHANGED <<hostVars, opt, tap, cur, relArg, ret, snapshotMeta, vmRootfs, fcPid, proxies,
                 destroying, count, live, reservedBy, torn, snapCalls, budget>>
  /\ UNCHANGED otherVars

\* destroy(), lines 238-244: `await this.stop()`, then rmSync of the directory
\* of rootfsPath.
DestroyCall(v) ==
  /\ pc[v] = "up" /\ stopCalls[v] < MaxStopCalls
  /\ stopCalls' = [stopCalls EXCEPT ![v] = @ + 1]
  /\ IF AlreadyStopped(stopped[v])
       THEN /\ files' = RmFiles(files, Dirname(RootfsPath(v)))
            /\ dirs' = RmDirs(dirs, Dirname(RootfsPath(v)))
            /\ log' = Forget(log, <<>>)
            /\ UNCHANGED <<pc, stopped, destroying>>
       ELSE /\ stopped' = [stopped EXCEPT ![v] = TRUE]
            /\ destroying' = [destroying EXCEPT ![v] = TRUE]
            /\ pc' = [pc EXCEPT ![v] = "st_kill"]
            /\ log' = [Forget(log, <<>>) EXCEPT ![v] = <<"stop", "kill">>]
            /\ UNCHANGED <<files, dirs>>
  /\ startErr' = Forget(startErr, "")
  /\ snapArg' = Forget(snapArg, NoSnapshot)
  /\ UNCHANGED <<allocatedSubnets, tapDev, natRules, hv, listeners, opt, tap, cur, relArg, ret,
                 snapshotMeta, vmRootfs, fcPid, proxies, count, live, reservedBy, torn,
                 snapCalls, budget>>
  /\ UNCHANGED otherVars

\* lines 110-147: the kill is over (its error is logged); every proxy is
\* closed; releaseTap(this.tap) is called.
HostPorts(v) == {proxies[v][k].hostPort : k \in 1 .. Len(proxies[v])}
StopKill(v) ==
  /\ pc[v] = "st_kill"
  /\ \E ok \in (IF HvAlive(v) THEN BOOLEAN ELSE {TRUE}) : Outcome(ok) /\ hv' = Killed(v, ok)
  /\ listeners' = [p \in DOMAIN listeners \ HostPorts(v) |-> listeners[p]]
  /\ count' = [count EXCEPT ![v] =
                 Bump(Bump(Bump(@, "kill", 1), "proxies", Len(proxies[v])), "release", 1)]
  /\ pc' = [pc EXCEPT ![v] = "rel_iface"]
  /\ relArg' = [relArg EXCEPT ![v] = tap[v]]
  /\ ret' = [ret EXCEPT ![v] = "stop"]
  /\ log' = [log EXCEPT ![v] = @ \o <<"closeProxies", "releaseTap">>]
  /\ UNCHANGED <<allocatedSubnets, tapDev, natRules, dirs, files, opt, tap, cur,
                 snapshotMeta, vmRootfs, fcPid, proxies, startErr, stopped, destroying,
                 snapArg, stopCalls, live, reservedBy, torn>>
  /\ UNCHANGED otherVars

\* lines 148-163: releaseTap is over, the socket is unlinked and stop()
\* returns; destroy() then removes the directory of rootfsPath (line 242).
StopDone(v) ==
  /\ pc[v] = "rel_tapdel" /\ ret[v] = "stop"
  /\ Released(v)
  /\ allocatedSubnets' = Unreserve(allocatedSubnets, relArg[v].subnetIndex)
  /\ reservedBy' = [reservedBy EXCEPT ![v] = @ \ {relArg[v].subnetIndex}]
  /\ count' = [count EXCEPT ![v] = Bump(@, "unlink", 1)]
  /\ log' = [log EXCEPT ![v] = Append(@, "unlink")]
  /\ IF destroying[v]
       THEN /\ files' = RmFiles(Unlink(files, SocketPath(v)), Dirname(RootfsPath(v)))
            /\ dirs' = RmDirs(dirs, Dirname(RootfsPath(v)))
       ELSE /\ files' = Unlink(files, SocketPath(v))
            /\ UNCHANGED dirs
  /\ destroying' = [destroying EXCEPT ![v] = FALSE]
  /\ pc' = [pc EXCEPT ![v] = "up"]
  /\ UNCHANGED <<natRules, hv, listeners, startVars, stopped, snapArg, stopCalls, torn>>
  /\ UNCHANGED otherVars

\* snapshot(), lines 169-182, up to the awaited pauseVM
SnapshotCall(v, s) ==
  /\ pc[v] = "up" /\ snapCalls < MaxSnapshots
  /\ snapCalls' = snapCalls + 1
  /\ dirs' = MkdirP(dirs, SnapshotDirOf(s))
  /\ snapArg' = [Forget(snapArg, NoSnapshot) EXCEPT ![v] = s]
  /\ pc' = [pc EXCEPT ![v] = "sn_pause"]
  /\ log' = [Forget(log, <<>>) EXCEPT ![v] = <<"snapshot", "pause">>]
  /\ startErr' = Forget(startErr, "")
  /\ UNCHANGED <<allocatedSubnets, tapDev, natRules, files, hv, listeners, opt, tap, cur, relArg,
                 ret, snapshotMeta, vmRootfs, fcPid, proxies, stopped, destroying, stopCalls,
                 count, live, reservedBy, torn, budget>>
  /\ UNCHANGED otherVars

\* PATCH /vm (firecracker-api.ts lines 272-291)
VmStateChangePossible(v) == Reachable(v) /\ hv[v].state \in {"running", "paused"}
\* line 182: the hypervisor answers the pauseVM request; a throw here is
\* outside the try of line 184
SnapshotPause(v) ==
  /\ pc[v] = "sn_pause"
  /\ \/ /\ Succeeds(VmStateChangePossible(v))
        /\ hv' = [hv EXCEPT ![v].state = "paused"]
        /\ pc' = [pc EXCEPT ![v] = "sn_paused"]
        /\ UNCHANGED log
     \/ /\ Fails(VmStateChangePossible(v))
        /\ pc' = [pc EXCEPT ![v] = "up"]
        /\ log' = [log EXCEPT ![v] = Append(@, "pause failed")]
        /\ UNCHANGED hv
  /\ UNCHANGED <<allocatedSubnets, tapDev, natRules, dirs, files, listeners, startVars,
                 instVars, live, reservedBy, torn>>
  /\ UNCHANGED otherVars

\* lines 184-186: snapshot() goes on after the answer to pauseVM and sends
\* the createSnapshot request
SnapshotIssueCreate(v) ==
  /\ pc[v] = "sn_paused"
  /\ pc' = [pc EXCEPT ![v] = "sn_create"]
  /\ log' = [log EXCEPT ![v] = Append(@, "create")]
  /\ UNCHANGED <<hostVars, startVars, instVars, live, reservedBy, torn, snapCalls, budget>>
  /\ UNCHANGED otherVars

\* lines 206-209: the `finally` issues resumeVM however the try block ended
ResumeOnlyAfterSuccess(completed) == completed
ResumeIssued(completed) == TRUE

\* lines 184-208: createSnapshot is over. On success the hypervisor has written
\* snapshot.bin and mem.bin; copyFileSync and writeFileSync follow at once, and
\* the finally block issues resumeVM.
SnapshotFiles(v, s) ==
  WriteFile(WriteFile(files, SnapshotBin(s),
                      [kind |-> "snapshot", tapName |-> hv[v].tapName, guestIp |-> hv[v].guestIp,
                       guestMac |-> hv[v].guestMac, disk |-> hv[v].disk]),
            MemBin(s), [kind |-> "mem", by |-> v])
Metadata(v) ==
  [kind |-> "metadata", originalRootfsPath |-> RootfsPath(v), tapName |-> tap[v].tapName,
   guestIp |-> tap[v].guestIp, guestMac |-> tap[v].guestMac]
\* PUT /snapshot/create is accepted only for a paused VM
CreatePossible(v, s) == Reachable(v) /\ hv[v].state = "paused" /\ SnapshotDirOf(s) \in dirs
SnapshotCreate(v) ==
  /\ pc[v] = "sn_create"
  /\ LET s == snapArg[v]
         after(completed, steps) ==
           /\ pc' = [pc EXCEPT ![v] = IF ResumeIssued(completed) THEN "sn_resume" ELSE "up"]
           /\ log' = [log EXCEPT ![v] =
                        @ \o steps \o (IF ResumeIssued(completed) THEN <<"resume">> ELSE <<>>)]
     IN
     \/ \* createSnapshot answered with an error status
        /\ Fails(CreatePossible(v, s))
        /\ after(FALSE, <<"create failed">>)
        /\ UNCHANGED <<files, torn>>
     \/ \* snapshot.bin and mem.bin written, copyFileSync throws
        /\ CreatePossible(v, s)
        /\ Fails(RootfsPath(v) \in DOMAIN files)
        /\ files' = SnapshotFiles(v, s)
        /\ torn' = IF RootfsPath(v) \in DOMAIN files THEN torn \cup {s} ELSE torn \ {s}
        /\ after(FALSE, <<"copy", "copy failed">>)
     \/ \* copied, writeFileSync throws
        /\ CreatePossible(v, s) /\ RootfsPath(v) \in DOMAIN files
        /\ Fails(TRUE)
        /\ files' = WriteFile(SnapshotFiles(v, s), SnapshotRootfs(s), files[RootfsPath(v)])
        /\ torn' = torn \cup {s}
        /\ after(FALSE, <<"copy", "metadata", "metadata failed">>)
     \/ \* all three steps succeed
        /\ Succeeds(CreatePossible(v, s) /\ RootfsPath(v) \in DOMAIN files)
        /\ files' = WriteFile(WriteFile(SnapshotFiles(v, s), SnapshotRootfs(s),
                                        files[RootfsPath(v)]),
                              MetadataPath(s), Metadata(v))
        /\ torn' = torn \ {s}
        /\ after(TRUE, <<"copy", "metadata">>)
  /\ UNCHANGED <<allocatedSubnets, tapDev, natRules, dirs, hv, listeners, startVars,
                 instVars, live, reservedBy>>
  /\ UNCHANGED otherVars

\* the try block of lines 184-205 ran to its end
TryCompleted(l) ==
  /\ \E k \in DOMAIN l : l[k] = "metadata"
  /\ \A k \in DOMAIN l : l[k] # "metadata failed"
\* line 208: resumeVM is over; snapshot() returns or throws
SnapshotResume(v) ==
  /\ pc[v] = "sn_resume"
  /\ \/ /\ Succeeds(VmStateChangePossible(v))
        /\ hv' = [hv EXCEPT ![v].state = "running"]
        /\ log' = [log EXCEPT ![v] = Append(@, "resumed")]
        /\ complete' = IF TryCompleted(log[v]) THEN complete \cup {snapArg[v]} ELSE complete
     \/ /\ Fails(VmStateChangePossible(v))
        /\ log' = [log EXCEPT ![v] = Append(@, "resume failed")]
        /\ UNCHANGED <<hv, complete>>
  /\ pc' = [pc EXCEPT ![v] = "up"]
  /\ UNCHANGED <<allocatedSubnets, tapDev, natRules, dirs, files, listeners, startVars,
                 instVars, live, reservedBy, torn>>
  /\ UNCHANGED <<restVars, made, deletion>>

\* deleteSnapshot(snapshotId), provider lines 463-473: throws when the
\* directory does not exist, removes it with all it holds otherwise
DeleteSnapshot(s) ==
  /\ SnapshotDirOf(s) \in dirs
  /\ files' = RmFiles(files, SnapshotDirOf(s))
  /\ dirs' = RmDirs(dirs, SnapshotDirOf(s))
  /\ complete' = complete \ {s}
  /\ UNCHANGED <<allocatedSubnets, tapDev, natRules, hv, listeners, pc, startVars, instVars,
                 histVars, snapCalls, budget>>
  /\ UNCHANGED <<restVars, made, deletion>>

\* ---- deleteSnapshot with any string as id ----
\* An id is written as its segments between "/": "" is <<"">>, "s1" is
\* <<"s1">>, "_running/fc-1" is <<"_running", "fc-1">>.
\* path.join(paths.snapshotDir, snapshotId), line 465, relative to the
\* snapshot root: empty and "." segments drop out, ".." takes the segment
\* before it away, or stays when there is none.
RECURSIVE PathJoin(_, _)
PathJoin(p, segs) ==
  IF segs = <<>> THEN p
  ELSE IF Head(segs) \in {"", "."} THEN PathJoin(p, Tail(segs))
  ELSE IF Head(segs) = ".."
    THEN IF p # <<>> /\ p[Len(p)] # ".."
           THEN PathJoin(SubSeq(p, 1, Len(p) - 1), Tail(segs))
           ELSE PathJoin(Append(p, ".."), Tail(segs))
  ELSE PathJoin(Append(p, Head(segs)), Tail(segs))
\* The path leaves the snapshot root.
Escapes(p) == p # <<>> /\ p[1] = ".."
\* paths.binary and paths.kernel lie outside the snapshot root, in its parent
\* directory (lines 55-66).
OutsideRoot(p) == p \in {BinaryPath, KernelPath}
\* The snapshot root exists once something was created below it.
RootExists == dirs # {}
\* fs.existsSync(target), line 467
TargetExists(p) ==
  IF p = <<>> THEN RootExists
  ELSE IF Escapes(p) THEN p = <<"..">>
  ELSE p \in dirs \/ p \in DOMAIN files
\* fs.rmSync(target, {recursive: true, force: true}), line 471
RmTreeFiles(fs, p) ==
  IF Escapes(p) THEN [q \in {} |-> 0]
  ELSE [q \in {x \in DOMAIN fs : OutsideRoot(x) \/ ~IsUnder(p, x)} |-> fs[q]]
RmTreeDirs(ds, p) == IF Escapes(p) THEN {} ELSE RmDirs(ds, p)
\* the ids deleteSnapshot is called with
MaxDeletes == 2
DeleteIds ==
  {<<s>> : s \in SnapIds} \cup
    {<<"">>, <<".">>, <<"..">>, <<"_running">>, <<"_running", VmId(1)>>,
     <<SnapId(1), "..", "_running">>}
\* deleteSnapshot(snapshotId), lines 463-473
DeleteSnapshotCall(id) ==
  /\ deletion.calls < MaxDeletes
  /\ LET target == PathJoin(<<>>, id) IN
       IF TargetExists(target)
         THEN /\ files' = RmTreeFiles(files, target)
              /\ dirs' = RmTreeDirs(dirs, target)
              /\ complete' = {s \in complete : SnapshotDirOf(s) \in RmTreeDirs(dirs, target)}
              /\ deletion' = [calls |-> deletion.calls + 1, id |-> id, threw |-> FALSE]
         ELSE /\ deletion' = [calls |-> deletion.calls + 1, id |-> id, threw |-> TRUE]
              /\ UNCHANGED <<files, dirs, complete>>
  /\ UNCHANGED <<allocatedSubnets, tapDev, natRules, hv, listeners, pc, startVars, instVars,
                 histVars, snapCalls, budget, restVars, made>>

\* ---- the specifications ----
Quiet == \A v \in VMs : pc[v] \in {"idle", "up", "failed"}

Call(v) ==
  \/ \E s \in {NoSnapshot} \cup SnapIds : Start(v, s)
  \/ StopCall(v)
  \/ DestroyCall(v)
  \/ \E s \in SnapIds : SnapshotCall(v, s)

AllocatorStep(v) ==
  \/ SetupStaleDelete(v)
  \/ SetupTapCreate(v)
  \/ SetupDefaultInterface(v)
  \/ SetupNatFails(v)
  \/ AllocateThrows(v)
  \/ AllocateReturns(v)
  \/ ReleaseDefaultInterface(v)
  \/ ReleaseNatTeardown(v)

StartStep(v) ==
  \/ CopyRootfs(v)
  \/ Spawn(v)
  \/ WaitForSocket(v)
  \/ ConfigureAndBoot(v)
  \/ StartPortProxy(v)
  \/ WaitForSandboxd(v)
  \/ CreateSandbox(v)
  \/ RollbackKill(v)
  \/ RollbackDone(v)

StopStep(v) ==
  \/ StopKill(v)
  \/ StopDone(v)

RestoreStep(v) ==
  \/ DiscardDoneRecreate(v)
  \/ RecreateReturns(v)
  \/ RecreateThrows(v)
  \/ LoadSnapshot(v)
  \/ SnapshotPause(v)
  \/ SnapshotIssueCreate(v)
  \/ SnapshotCreate(v)
  \/ SnapshotResume(v)

Step(v) == AllocatorStep(v) \/ StartStep(v) \/ StopStep(v) \/ RestoreStep(v)

\* Calls made one after the other: a call starts when no other is in progress.
Next == \E v \in SeqVMs : (Quiet /\ Call(v)) \/ Step(v)
Spec == Init /\ [][Next]_vars

\* The same calls, and deleteSnapshot between them.
NextSnap == Next \/ (Quiet /\ \E s \in SnapIds : DeleteSnapshot(s))
SpecSnap == Init /\ [][NextSnap]_vars

\* Starts and snapshots only, with one more start: long enough for a snapshot
\* of a restored instance to be restored in its turn.
NextChain ==
  \E v \in VMs :
    \/ Quiet /\ \E s \in {NoSnapshot} \cup SnapIds : Start(v, s)
    \/ Quiet /\ \E s \in SnapIds : SnapshotCall(v, s)
    \/ AllocatorStep(v)
    \/ StartStep(v)
    \/ RestoreStep(v)
SpecChain == InitChain /\ [][NextChain]_vars

\* The same calls as in Spec, on a host where any of the files that
\* scripts/setup-firecracker.sh installs may be missing.
InitPrereq ==
  \E missing \in SUBSET Prerequisites : InitFrom({}, TRUE, MaxFaults, NoTap, missing, <<>>)
SpecPrereq == InitPrereq /\ [][Next]_vars

\* Overlapping fresh-boot starts and stops: the allocator is used through
\* allocateTap and releaseTap only; each call suspends at its awaits and the
\* others run meanwhile.
NextAlloc ==
  \E v \in ConcVMs :
    \/ Start(v, NoSnapshot)
    \/ StopCall(v)
    \/ DestroyCall(v)
    \/ AllocatorStep(v)
    \/ StartStep(v)
    \/ StopStep(v)
SpecAlloc == InitHost /\ [][NextAlloc]_vars

\* A restore and another start that overlap, on a host whose disk holds one
\* snapshot of an earlier run, taken by the instance of index 0 or 1.
StoredIndexes == 0 .. 1
InitRace ==
  \E k \in StoredIndexes : InitFrom({}, TRUE, ChainFaults, NoTap, {}, SnapId(1) :> k)
NextRace ==
  \E v \in ConcVMs :
    \/ \E s \in {NoSnapshot, SnapId(1)} : Start(v, s)
    \/ AllocatorStep(v)
    \/ StartStep(v)
    \/ DiscardDoneRecreate(v)
    \/ RecreateReturns(v)
    \/ RecreateThrows(v)
    \/ LoadSnapshot(v)
SpecRace == InitRace /\ [][NextRace]_vars

\* One VM: a fresh start, snapshots of the instance, and deleteSnapshot
\* called between them with ids of any form.
NextDelete ==
  \/ \E v \in {1} :
       \/ Start(v, NoSnapshot)
       \/ AllocatorStep(v)
       \/ StartStep(v)
       \/ \E s \in SnapIds : SnapshotCall(v, s)
       \/ SnapshotPause(v)
       \/ SnapshotIssueCreate(v)
       \/ SnapshotCreate(v)
       \/ SnapshotResume(v)
  \/ Quiet /\ \E id \in DeleteIds : DeleteSnapshotCall(id)
SpecDelete == InitChain /\ [][NextDelete]_vars

\* ---- scripts/fc-helper.sh: the sudo gateway ----
RECURSIVE DigitsGreater(_, _)
\* a > b for two digit strings of the same length
DigitsGreater(a, b) ==
  IF a = <<>> THEN FALSE
  ELSE IF DigitVal(a[1]) # DigitVal(b[1]) THEN DigitVal(a[1]) > DigitVal(b[1])
  ELSE DigitsGreater(Tail(a), Tail(b))
\* the largest value `[ a -lt b ]` can read: 2^63 - 1
IntMaxDigits ==
  <<"9","2","2","3","3","7","2","0","3","6","8","5","4","7","7","5","8","0","7">>
\* `[ "$port" -lt 1 ]` fails with "integer expression expected" (status 2)
\* on a number that does not fit: the branch is then not taken.
TestErrors(d) ==
  LET s == StripZeros(d) IN
    Len(s) > Len(IntMaxDigits) \/ (Len(s) = Len(IntMaxDigits) /\ DigitsGreater(s, IntMaxDigits))
PortTooSmall(d) == ~TestErrors(d) /\ StripZeros(d) = <<>>
PortTooLarge(d) ==
  LET s == StripZeros(d) IN ~TestErrors(d) /\ (Len(s) > 5 \/ ParseInt(s) > 65535)
AllDigits(s) == s # <<>> /\ \A k \in DOMAIN s : s[k] \in Digits

\* lines 53-59
validate_path(p) ==
  ~ \/ \E k \in DOMAIN p : p[k] \in Whitespace
    \/ \E k \in 1 .. Len(p) - 1 : p[k] = "." /\ p[k + 1] = "."
    \/ p # <<>> /\ p[1] = "-"
\* lines 62-68
validate_tap(t) == Len(t) \in 1 .. 15 /\ \A k \in DOMAIN t : t[k] \in WordChars
\* lines 71-77: four non-empty groups of digits separated by dots
validate_ip(ip) ==
  /\ ip # <<>>
  /\ \A k \in DOMAIN ip : ip[k] \in Digits \cup {"."}
  /\ Cardinality({k \in DOMAIN ip : ip[k] = "."}) = 3
  /\ ip[1] # "." /\ ip[Len(ip)] # "."
  /\ \A k \in 1 .. Len(ip) - 1 : ~(ip[k] = "." /\ ip[k + 1] = ".")
\* lines 80-86
validate_port(port) == AllDigits(port) /\ ~PortTooSmall(port) /\ ~PortTooLarge(port)
\* lines 89-95
validate_pid(pid) == AllDigits(pid)

Passes(validator, arg) ==
  CASE validator = "path" -> validate_path(arg)
    [] validator = "tap" -> validate_tap(arg)
    [] validator = "ip" -> validate_ip(arg)
    [] validator = "port" -> validate_port(arg)
    [] validator = "pid" -> validate_pid(arg)

Commands == {"spawn", "tap-create", "tap-delete", "nat-setup", "nat-teardown",
             "port-forward-add", "port-forward-del", "kill", "copy-rootfs"}
\* the positional parameters a subcommand reads: "${1:-}" ... "${n:-}"
Arity(cmd) ==
  CASE cmd \in {"tap-delete", "kill"} -> 1
    [] cmd = "copy-rootfs" -> 2
    [] cmd \in {"spawn", "tap-create", "nat-setup", "nat-teardown"} -> 3
    [] cmd \in {"port-forward-add", "port-forward-del"} -> 4
\* the `[ -z ... ] && usage` line of each subcommand
Required(cmd) == IF cmd = "spawn" THEN {1, 2} ELSE 1 .. Arity(cmd)
\* the validate_* calls of each subcommand, in order: <<position, validator>>
Checks(cmd) ==
  CASE cmd \in {"spawn", "copy-rootfs"} -> <<<<1, "path">>, <<2, "path">>>>
    [] cmd \in {"tap-create", "nat-setup", "nat-teardown"} -> <<<<1, "tap">>, <<2, "ip">>>>
    [] cmd = "tap-delete" -> <<<<1, "tap">>>>
    [] cmd \in {"port-forward-add", "port-forward-del"} ->
         <<<<1, "port">>, <<2, "ip">>, <<3, "port">>>>
    [] cmd = "kill" -> <<<<1, "pid">>>>
\* the commands each subcommand runs as root, in order, with the positions of
\* the arguments each one is given
Cmd(exe, uses) == [exe |-> exe, uses |-> uses]
Privileged(cmd) ==
  CASE cmd = "spawn" -> <<Cmd("rm -f", {2}), Cmd("firecracker --api-sock", {1, 2}),
                          Cmd("chmod", {2})>>
    [] cmd = "tap-create" -> <<Cmd("ip tuntap add", {1}), Cmd("ip addr add", {1, 2, 3}),
                               Cmd("ip link set up", {1})>>
    [] cmd = "tap-delete" -> <<Cmd("ip link set down", {1}), Cmd("ip tuntap del", {1})>>
    [] cmd = "nat-setup" -> <<Cmd("sysctl", {}), Cmd("iptables -A POSTROUTING", {2, 3}),
                              Cmd("iptables -A FORWARD -i", {1, 3}),
                              Cmd("iptables -A FORWARD -o", {1, 3})>>
    [] cmd = "nat-teardown" -> <<Cmd("iptables -D POSTROUTING", {2, 3}),
                                 Cmd("iptables -D FORWARD -i", {1, 3}),
                                 Cmd("iptables -D FORWARD -o", {1, 3})>>
    [] cmd = "port-forward-add" -> <<Cmd("iptables -A PREROUTING", {1, 2, 3}),
                                     Cmd("iptables -A OUTPUT", {1, 2, 3}),
                                     Cmd("iptables -A FORWARD -d", {2, 3})>>
    [] cmd = "port-forward-del" -> <<Cmd("iptables -D PREROUTING", {1, 2, 3}),
                                     Cmd("iptables -D OUTPUT", {1, 2, 3}),
                                     Cmd("iptables -D FORWARD -d", {2, 3})>>
    [] cmd = "kill" -> <<Cmd("cat /proc/PID/comm", {1})>>
    [] cmd = "copy-rootfs" -> <<Cmd("cp", {1, 2})>>

RECURSIVE PassedChecks(_, _)
\* how many of the validate_* calls return before one exits the script
PassedChecks(checks, args) ==
  IF checks = <<>> \/ ~Passes(checks[1][2], args[checks[1][1]]) THEN 0
  ELSE 1 + PassedChecks(Tail(checks), args)
Missing(cmd, args) == \E k \in Required(cmd) : args[k] = <<>>

\* /proc/<pid>/comm, "" when `cat` fails
CommOf(table, pid) == IF pid \in Pids THEN table[pid].comm ELSE ""
HYPERVISOR_COMM == "firecracker"
FreePids == {p \in Pids : procTable[p] = NoProc}

\* One run of the script up to its exit, or for `kill` up to the reading of
\* /proc/PID/comm (line 230).  `by` is the VM whose code made the call, 0 for
\* any other caller.
HelperRun(cmd, args, by) ==
  /\ helper.pc = "idle"
  /\ argv' = <<cmd>> \o args
  /\ LET n == PassedChecks(Checks(cmd), args) IN
     IF Missing(cmd, args)
       THEN /\ validated' = {} /\ ran' = <<>> /\ exitCode' = 1
            /\ UNCHANGED <<procTable, helper>>
     ELSE IF n < Len(Checks(cmd))
       THEN /\ validated' = {Checks(cmd)[k][1] : k \in 1 .. n}
            /\ ran' = <<>> /\ exitCode' = 1
            /\ UNCHANGED <<procTable, helper>>
     ELSE /\ validated' = {Checks(cmd)[k][1] : k \in 1 .. n}
          /\ ran' = Privileged(cmd)
          /\ IF cmd = "kill"
               THEN /\ helper' = [pc |-> "read", pid |-> ParseInt(args[1]),
                                  comm |-> CommOf(procTable, ParseInt(args[1])), by |-> by]
                    /\ exitCode' = -1
                    /\ UNCHANGED procTable
             ELSE IF cmd = "spawn"
               THEN \* lines 115-116: the binary runs in the background, `$!` is printed
                    /\ \E p \in FreePids :
                         procTable' = [procTable EXCEPT ![p] = [comm |-> HYPERVISOR_COMM, vm |-> by]]
                    /\ exitCode' = 0
                    /\ UNCHANGED helper
             ELSE /\ exitCode' = 0
                  /\ UNCHANGED <<procTable, helper>>
  /\ UNCHANGED signals

\* lines 231-237: the comparison of the name read, then `kill "$PID"`, which
\* reaches whatever process holds the PID at that moment.
NameMatchesAlways(comm) == TRUE
NameMatches(comm) == comm = HYPERVISOR_COMM
KillSignal ==
  /\ helper.pc = "read"
  /\ IF NameMatches(helper.comm)
       THEN /\ ran' = Append(ran, Cmd("kill", {1}))
            /\ exitCode' = 0
            /\ IF helper.pid \in Pids /\ procTable[helper.pid] # NoProc
                 THEN /\ signals' = signals \cup
                            {[by |-> helper.by, pid |-> helper.pid, hit |-> procTable[helper.pid]]}
                      /\ procTable' = [procTable EXCEPT ![helper.pid] = NoProc]
                 ELSE UNCHANGED <<signals, procTable>>
       ELSE /\ exitCode' = 1
            /\ UNCHANGED <<ran, signals, procTable>>
  /\ helper' = HelperIdle
  /\ UNCHANGED <<argv, validated, nonGwVars>>

\* ---- the callers of `fc-helper.sh kill` ----
BinaryArg == <<"/", "f", "c">>
SocketArg(v) == <<"/", "f", "c", "-", ToString(v)>>
\* spawnFirecracker, firecracker-provider.ts lines 80-111: the PID printed by
\* the script is parsed and becomes fcPid.
SpawnFirecracker(v) ==
  /\ fcPid[v] = 0
  /\ HelperRun("spawn", <<BinaryArg, SocketArg(v), <<"-", "-">>>>, v)
  /\ fcPid' = [fcPid EXCEPT ![v] =
                 ParseInt(Decimal(CHOOSE p \in Pids : procTable'[p] # procTable[p]))]
  /\ UNCHANGED <<hostVars, pc, opt, tap, cur, relArg, ret, snapshotMeta, vmRootfs, proxies,
                 startErr, instVars, histVars, snapCalls, budget, execs, before, ctlVars, unitVars, complete, made, deletion>>
\* stop() lines 105-117 and killFirecracker lines 113-135: the recorded PID is
\* passed as String(pid); each is done once per instance.
KillCall(v) ==
  /\ fcPid[v] # 0 /\ ~stopped[v]
  /\ stopped' = [stopped EXCEPT ![v] = TRUE]
  /\ HelperRun("kill", <<Decimal(fcPid[v])>>, v)
  /\ UNCHANGED <<hostVars, pc, startVars, destroying, snapArg, stopCalls, count, histVars,
                 snapCalls, budget, execs, before, ctlVars, unitVars, complete, made, deletion>>
\* The host: a process ends by itself (a guest that shuts down ends its
\* hypervisor), and a process some other program starts gets a free PID.
ProcExit(p) ==
  /\ procTable[p] # NoProc
  /\ procTable' = [procTable EXCEPT ![p] = NoProc]
  /\ UNCHANGED <<nonGwVars, helper, argv, validated, ran, exitCode, signals>>
OtherComms == {"bash", HYPERVISOR_COMM}
ProcStart(p, comm) ==
  /\ procTable[p] = NoProc
  /\ procTable' = [procTable EXCEPT ![p] = [comm |-> comm, vm |-> 0]]
  /\ UNCHANGED <<nonGwVars, helper, argv, validated, ran, exitCode, signals>>

NextKill ==
  \/ \E v \in SeqVMs : SpawnFirecracker(v) \/ KillCall(v)
  \/ KillSignal
  \/ \E p \in Pids : ProcExit(p) \/ \E comm \in OtherComms : ProcStart(p, comm)
SpecKill == Init /\ [][NextKill]_vars

\* ---- any caller of the script ----
\* Arguments written out: a number, a dotted quad, and a string with a blank
\* that starts with a dash and holds two dots.
ArgNumber == <<"1">>
ArgDotted == <<"1", ".", "2", ".", "3", ".", "4">>
ArgHostile == <<"-", "x", " ", ".", ".">>
SampleArgs == {<<>>, ArgNumber, ArgDotted, ArgHostile}
ArgVectors(n) == [1 .. n -> SampleArgs]
\* `sudo fc-helper.sh <cmd> <args...>` by a caller that is not this server
HelperCall(cmd, args) == HelperRun(cmd, args, 0) /\ UNCHANGED nonGwVars
NextHelper ==
  \/ \E cmd \in Commands : \E args \in ArgVectors(Arity(cmd)) : HelperCall(cmd, args)
  \/ KillSignal
SpecHelper == Init /\ [][NextHelper]_vars

\* ---- FirecrackerSandboxInstance.exec, lines 69-99 ----
\* Texts are sequences of parts; <<>> is the empty string.
Statuses == {200, 204, 404, 500}
\* what the guest daemon reports for a command
GuestResults ==
  [threw : {FALSE}, exit_code : {0, 1, 3}, stdout : {<<>>, <<"out">>}, stderr : {<<>>, <<"err">>}]
\* a response body: the JSON text of a result, or text that is no JSON
Json(r) == <<"json", r>>
Bodies == {Json(r) : r \in GuestResults} \cup {<<>>, <<"<html>">>}
IsJson(body) == body # <<>> /\ body[1] = "json"
\* error.message of a rejected fetch or body read; it may be empty
Messages == {<<>>, <<"ECONNREFUSED">>, <<"TimeoutError">>}
ResponseOk(status) == status \in 200 .. 299                        \* response.ok
\* lines 71 and 92: the awaits the try block encloses
InTryFetchOnly(stage) == stage = "fetch"
InTry(stage) == stage \in {"fetch", "text", "json"}
\* lines 92-98, or the rejection of exec() when no catch applies
Failed(stage, message) ==
  IF InTry(stage)
    THEN [threw |-> FALSE, exit_code |-> 1, stdout |-> <<>>,
          stderr |-> <<"Failed to exec in Firecracker VM: ">> \o message]
    ELSE [NoResult EXCEPT !.threw = TRUE]
\* lines 83-88
NotOkResult(status, text) ==
  [threw |-> FALSE, exit_code |-> 1, stdout |-> <<>>,
   stderr |-> <<"cmux-sandboxd returned ", status, ": ">> \o text]

\* lines 69-72: exec(command) builds the request and awaits fetch
ExecCall(v) ==
  /\ execs[v].pc \in {"idle", "done"}
  /\ execs' = [execs EXCEPT ![v] = [NoExec EXCEPT !.pc = "fetch"]]
  /\ UNCHANGED <<hostVars, pc, startVars, instVars, histVars, snapCalls, budget, gwVars, before,
                 ctlVars, unitVars, complete, made, deletion>>
\* lines 72-90: fetch settles: it rejects (daemon unreachable, 120 s timeout)
\* or resolves with a response, whose body is then awaited
FetchSettles(v) ==
  /\ execs[v].pc = "fetch"
  /\ \/ \E m \in Messages :
          execs' = [execs EXCEPT ![v].pc = "done", ![v].out = Failed("fetch", m)]
     \/ \E st \in Statuses :
          execs' = [execs EXCEPT ![v].status = st,
                                 ![v].pc = IF ResponseOk(st) THEN "json" ELSE "text"]
  /\ UNCHANGED <<hostVars, pc, startVars, instVars, histVars, snapCalls, budget, gwVars, before,
                 ctlVars, unitVars, complete, made, deletion>>
\* lines 83-91: response.text() or response.json() settles
BodySettles(v) ==
  /\ execs[v].pc \in {"text", "json"}
  /\ \/ \E m \in Messages :
          execs' = [execs EXCEPT ![v].pc = "done", ![v].body = <<"unreadable">>,
                                 ![v].out = Failed(execs[v].pc, m)]
     \/ \E b \in Bodies :
          execs' = [execs EXCEPT
                      ![v].pc = "done", ![v].body = b,
                      ![v].out = IF execs[v].pc = "text" THEN NotOkResult(execs[v].status, b)
                                 ELSE IF IsJson(b) THEN b[2]
                                 ELSE Failed("json", <<"SyntaxError">>)]
  /\ UNCHANGED <<hostVars, pc, startVars, instVars, histVars, snapCalls, budget, gwVars, before,
                 ctlVars, unitVars, complete, made, deletion>>

NextExec == \E v \in SeqVMs : ExecCall(v) \/ FetchSettles(v) \/ BodySettles(v)
SpecExec == Init /\ [][NextExec]_vars

\* ---- the allocator used directly: allocateTap and releaseTap ----
\* A caller c calls allocateTap, keeps the allocation, and calls releaseTap
\* with it; a call begins when no other call is in progress.
NoCallInProgress == \A w \in VMs : pc[w] \in {"idle", "held"}
\* allocateTap, lines 118-143, up to its first await
TapAllocate(c) ==
  /\ pc[c] = "idle" /\ NoCallInProgress
  /\ before' = [by |-> c, set |-> allocatedSubnets, phase |-> "allocating"]
  /\ LET idx == FindFreeIndex(allocatedSubnets, 0) IN
       IF idx = -1
         THEN /\ pc' = [pc EXCEPT ![c] = "failed"]
              /\ startErr' = [startErr EXCEPT ![c] = "No more available subnets"]
              /\ UNCHANGED <<allocatedSubnets, cur, ret, reservedBy>>
         ELSE /\ allocatedSubnets' = allocatedSubnets \cup {idx}
              /\ reservedBy' = [reservedBy EXCEPT ![c] = @ \cup {idx}]
              /\ cur' = [cur EXCEPT ![c] = TapAllocation(idx)]
              /\ ret' = [ret EXCEPT ![c] = "caller"]
              /\ pc' = [pc EXCEPT ![c] = "setup_staledel"]
              /\ UNCHANGED startErr
  /\ UNCHANGED <<tapDev, natRules, dirs, files, hv, listeners, opt, tap, relArg, snapshotMeta,
                 vmRootfs, fcPid, proxies, instVars, live, log, torn, snapCalls, budget,
                 gwVars, execs, ctlVars, unitVars, complete, made, deletion>>
\* lines 153-155: nat-setup succeeds and allocateTap returns the allocation
TapAllocateReturns(c) ==
  /\ pc[c] = "setup_nat" /\ ret[c] = "caller"
  /\ Succeeds(TRUE)
  /\ natRules' = [natRules EXCEPT ![cur[c].subnetIndex] = @ + 1]
  /\ tap' = [tap EXCEPT ![c] = cur[c]]
  /\ live' = [live EXCEPT ![c] = @ \cup {cur[c]}]
  /\ pc' = [pc EXCEPT ![c] = "held"]
  /\ before' = [before EXCEPT !.phase = "held"]
  /\ UNCHANGED <<allocatedSubnets, tapDev, dirs, files, hv, listeners, opt, cur, relArg, ret,
                 snapshotMeta, vmRootfs, fcPid, proxies, startErr, instVars, reservedBy, log,
                 torn, gwVars, execs, ctlVars, unitVars, complete, deletion>>
  /\ made' = [made EXCEPT ![c] = NoMade]
\* lines 159-164: the cleanup tap-delete, then `throw error`
TapAllocateThrows(c) ==
  /\ pc[c] = "setup_cleanup" /\ ret[c] = "caller"
  /\ TapDelete(cur[c].subnetIndex)
  /\ pc' = [pc EXCEPT ![c] = "idle"]
  /\ before' = NoBefore
  /\ UNCHANGED <<allocatedSubnets, natRules, dirs, files, hv, listeners, startVars, instVars,
                 histVars, gwVars, execs, ctlVars, unitVars, complete, deletion>>
  /\ made' = [made EXCEPT ![c] = NoMade]
\* releaseTap(allocation), lines 225-227, up to its first await
TapRelease(c) ==
  /\ pc[c] = "held" /\ NoCallInProgress
  /\ pc' = [pc EXCEPT ![c] = "rel_iface"]
  /\ relArg' = [relArg EXCEPT ![c] = tap[c]]
  /\ before' = IF before.by = c /\ before.phase = "held"
                 THEN [before EXCEPT !.phase = "releasing"] ELSE NoBefore
  /\ UNCHANGED <<hostVars, opt, tap, cur, ret, snapshotMeta, vmRootfs, fcPid, proxies, startErr,
                 instVars, histVars, snapCalls, budget, gwVars, execs, ctlVars, unitVars, complete, made, deletion>>
\* lines 241-251: the tap-delete is over, the index is deleted from the set
TapReleased(c) ==
  /\ pc[c] = "rel_tapdel" /\ ret[c] = "caller"
  /\ Released(c)
  /\ allocatedSubnets' = Unreserve(allocatedSubnets, relArg[c].subnetIndex)
  /\ reservedBy' = [reservedBy EXCEPT ![c] = @ \ {relArg[c].subnetIndex}]
  /\ pc' = [pc EXCEPT ![c] = "idle"]
  /\ before' = IF before.phase = "releasing" THEN [before EXCEPT !.phase = "released"] ELSE before
  /\ UNCHANGED <<natRules, dirs, files, hv, listeners, startVars, instVars, log, torn,
                 gwVars, execs, ctlVars, unitVars, complete, made, deletion>>

NextTap ==
  \E c \in VMs :
    \/ TapAllocate(c)
    \/ TapAllocateReturns(c)
    \/ TapAllocateThrows(c)
    \/ TapRelease(c)
    \/ TapReleased(c)
    \/ SetupStaleDelete(c)
    \/ SetupTapCreate(c)
    \/ SetupDefaultInterface(c)
    \/ SetupNatFails(c)
    \/ ReleaseDefaultInterface(c)
    \/ ReleaseNatTeardown(c)
SpecTap == InitHost /\ [][NextTap]_vars

\* ---- the index arithmetic on its own ----
\* The process starts on a host that holds the devices fc_tap0 .. fc_tap<k-1>
\* (k among the first StartsLow and the last StartsHigh sizes of the address
\* space), or on a clean host with the allocation that an earlier run of the
\* process made for index n, for every n of the address space.
IndexStarts == {k \in 0 .. MAX_SUBNETS : k <= StartsLow \/ k >= MAX_SUBNETS - StartsHigh}
InitIndex ==
  \/ \E k \in IndexStarts : InitFrom(0 .. (k - 1), TRUE, 0, NoTap, {}, <<>>)
  \/ \E n \in 0 .. (MAX_SUBNETS - 1) : InitFrom({}, TRUE, 0, TapAllocation(n), {}, <<>>)
\* recreateTap(tapName, guestIp, guestMac), lines 174-193, up to its first
\* await, with the three fields of the allocation the caller holds
RecreateFrom(c) ==
  /\ pc[c] = "idle" /\ tap[c] # NoTap
  /\ cur' = [cur EXCEPT ![c] =
               RecreateAllocation(tap[c].tapName, tap[c].guestIp, tap[c].guestMac)]
  /\ allocatedSubnets' = allocatedSubnets \cup {ParseTapIndex(tap[c].tapName)}
  /\ ret' = [ret EXCEPT ![c] = "recreate"]
  /\ pc' = [pc EXCEPT ![c] = "recomputed"]
  /\ UNCHANGED <<tapDev, natRules, dirs, files, hv, listeners, opt, tap, relArg, snapshotMeta,
                 vmRootfs, fcPid, proxies, startErr, instVars, histVars, snapCalls, budget,
                 otherVars>>
NextIndex == \E c \in {1} : TapAllocate(c) \/ RecreateFrom(c)
SpecIndex == InitIndex /\ [][NextIndex]_vars

\* ---- pause() and resume(), instance lines 215-226 ----
\* The instance object exists from the return of its start on; its methods
\* can be called while another call on it is suspended at an await.
Constructed(v) ==
  \/ pc[v] \in {"up", "st_kill", "sn_pause", "sn_paused", "sn_create", "sn_resume"}
  \/ pc[v] \in {"rel_iface", "rel_nat", "rel_tapdel"} /\ ret[v] = "stop"
\* line 216 / 224: the PATCH /vm request is sent, whatever `stopped` says
CtlCall(v, op) ==
  /\ Constructed(v) /\ ctl[v] = "idle"
  /\ ctl' = [ctl EXCEPT ![v] = op]
  /\ UNCHANGED <<hostVars, pc, startVars, instVars, histVars, snapCalls, budget, gwVars, execs,
                 before, isPaused, unitVars, complete, made, deletion>>
PauseCall(v) == CtlCall(v, "pause")
ResumeCall(v) == CtlCall(v, "resume")
\* the hypervisor answers; on 200/204 the flag is set (lines 217, 225),
\* otherwise pauseVM / resumeVM throws
CtlSettles(v, op, state, flag) ==
  /\ ctl[v] = op
  /\ \/ /\ Succeeds(VmStateChangePossible(v))
        /\ hv' = [hv EXCEPT ![v].state = state]
        /\ isPaused' = [isPaused EXCEPT ![v] = flag]
     \/ /\ Fails(VmStateChangePossible(v))
        /\ UNCHANGED <<hv, isPaused>>
  /\ ctl' = [ctl EXCEPT ![v] = "idle"]
  /\ UNCHANGED <<allocatedSubnets, tapDev, natRules, dirs, files, listeners, pc, startVars,
                 instVars, histVars, gwVars, execs, before, unitVars, complete, made, deletion>>
PauseSettles(v) == CtlSettles(v, "pause", "paused", TRUE)
ResumeSettles(v) == CtlSettles(v, "resume", "running", FALSE)

\* One VM: a fresh start, then stop(), destroy(), snapshot(), pause() and
\* resume() on the instance, pause() and resume() overlapping the others.
NextLifecycle ==
  \E v \in {1} :
    \/ Start(v, NoSnapshot)
    \/ AllocatorStep(v)
    \/ StartStep(v)
    \/ StopCall(v)
    \/ DestroyCall(v)
    \/ StopStep(v)
    \/ \E s \in SnapIds : SnapshotCall(v, s)
    \/ SnapshotPause(v)
    \/ SnapshotIssueCreate(v)
    \/ SnapshotCreate(v)
    \/ SnapshotResume(v)
    \/ PauseCall(v)
    \/ PauseSettles(v)
    \/ ResumeCall(v)
    \/ ResumeSettles(v)
SpecLifecycle == Init /\ [][NextLifecycle]_vars

\* ---- stop() and destroy() called while a stop() is suspended ----
\* The stop() of v is suspended at its awaited kill or inside its releaseTap.
StopInProgress(v) ==
  \/ pc[v] = "st_kill"
  \/ pc[v] \in {"rel_iface", "rel_nat", "rel_tapdel"} /\ ret[v] = "stop"
\* stop(), line 105: `stopped` is set, the call returns at once.
StopOverlaps(v) ==
  /\ StopInProgress(v) /\ stopCalls[v] < MaxStopCalls
  /\ AlreadyStopped(stopped[v])
  /\ stopCalls' = [stopCalls EXCEPT ![v] = @ + 1]
  /\ UNCHANGED <<hostVars, pc, startVars, stopped, destroying, snapArg, count, histVars,
                 snapCalls, budget, otherVars>>
\* destroy(), lines 238-244: its `await this.stop()` returns at once and the
\* rmSync of line 242 runs before any callback of the suspended stop().
DestroyOverlaps(v) ==
  /\ StopInProgress(v) /\ stopCalls[v] < MaxStopCalls
  /\ AlreadyStopped(stopped[v])
  /\ stopCalls' = [stopCalls EXCEPT ![v] = @ + 1]
  /\ files' = RmFiles(files, Dirname(RootfsPath(v)))
  /\ dirs' = RmDirs(dirs, Dirname(RootfsPath(v)))
  /\ UNCHANGED <<allocatedSubnets, tapDev, natRules, hv, listeners, pc, startVars, stopped,
                 destroying, snapArg, count, histVars, snapCalls, budget, otherVars>>
\* One VM as in SpecLifecycle, with stop() and destroy() also called while a
\* stop() is in progress.
NextOverlap == NextLifecycle \/ (\E v \in {1} : StopOverlaps(v) \/ DestroyOverlaps(v))
SpecOverlap == Init /\ [][NextOverlap]_vars

\* ---- firecracker-api.ts: a control call and the status of its answer ----
\* configureAndBoot's five requests (lines 135-211), pauseVM, resumeVM,
\* createSnapshot and loadSnapshot (lines 272-345), with the text each puts
\* in front of the status when it throws
ControlCalls ==
  <<"Failed to set boot source: ", "Failed to set drive rootfs: ",
    "Failed to set machine config: ", "Failed to set network interface eth0: ",
    "Failed to start VM: ", "Failed to pause VM: ", "Failed to resume VM: ",
    "Failed to create snapshot: ", "Failed to load snapshot: ">>
\* the status codes and the bodies a hypervisor is made to answer with here
ControlStatuses == {0, 200, 201, 202, 204, 206, 301, 400, 404, 500}
ControlBodies == {<<>>, <<"{", "}">>, <<"f", "a", "u", "l", "t">>}
\* `res.statusCode !== 204 && res.statusCode !== 200` is false
StatusOkAny2xx(status) == status \div 100 = 2
StatusOk(status) == status = 204 \/ status = 200
\* `${prefix}${res.statusCode} ${res.body}`
FailureMessage(k, status, body) == <<ControlCalls[k]>> \o Decimal(status) \o <<" ">> \o body
\* firecrackerRequest resolves with the status and the body of the answer
ControlAnswered(k) ==
  /\ control.pc = "idle"
  /\ \E status \in ControlStatuses : \E body \in ControlBodies :
       control' = [NoControl EXCEPT !.pc = "answered", !.call = k, !.status = status,
                                    !.body = body]
  /\ UNCHANGED <<hostVars, pc, startVars, instVars, histVars, snapCalls, budget, gwVars, execs,
                 before, ctlVars, poll, relay, verdict, complete, made, deletion>>
\* the test of the status that follows the await: return or throw
ControlReturns ==
  /\ control.pc = "answered"
  /\ control' = [control EXCEPT
                   !.pc = "done",
                   !.threw = ~StatusOk(control.status),
                   !.message = IF StatusOk(control.status) THEN <<>>
                               ELSE FailureMessage(control.call, control.status, control.body)]
  /\ UNCHANGED <<hostVars, pc, startVars, instVars, histVars, snapCalls, budget, gwVars, execs,
                 before, ctlVars, poll, relay, verdict, complete, made, deletion>>
NextControl == (\E k \in 1 .. Len(ControlCalls) : ControlAnswered(k)) \/ ControlReturns
SpecControl == Init /\ [][NextControl]_vars

\* ---- firecracker-api.ts: configureAndBoot on its own, lines 130-212 ----
\* config.drives and config.networkInterfaces are lists of any length
MaxDrives == 2
MaxIfaces == 2
\* The call before its first request: `at` is the request about to be issued
\* (its URL path and, inside a loop, the position in the list), `sent` the
\* requests issued so far and `answers` the status each was answered with.
BootFrame(drives, ifaces) ==
  [pc |-> "requesting", drives |-> drives, ifaces |-> ifaces,
   at |-> <<"boot-source", 0>>, sent |-> <<>>, answers |-> <<>>]
\* Where control goes when the status test after a request does not throw.
BootAfterMachineFirst(at, drives, ifaces) ==
  IF at[1] = "boot-source" THEN <<"machine-config", 0>>
  ELSE IF at[1] = "machine-config"
         THEN IF drives > 0 THEN <<"drives", 1>>
              ELSE IF ifaces > 0 THEN <<"network-interfaces", 1>> ELSE <<"actions", 0>>
  ELSE IF at[1] = "drives"
         THEN IF at[2] < drives THEN <<"drives", at[2] + 1>>
              ELSE IF ifaces > 0 THEN <<"network-interfaces", 1>> ELSE <<"actions", 0>>
  ELSE IF at[1] = "network-interfaces" /\ at[2] < ifaces
         THEN <<"network-interfaces", at[2] + 1>>
  ELSE IF at[1] = "network-interfaces" THEN <<"actions", 0>>
  ELSE <<"return", 0>>
BootAfter(at, drives, ifaces) ==
  IF at[1] = "boot-source"                                   \* line 143 -> 146
    THEN IF drives > 0 THEN <<"drives", 1>> ELSE <<"machine-config", 0>>
  ELSE IF at[1] = "drives"                                   \* the loop of 146-163
    THEN IF at[2] < drives THEN <<"drives", at[2] + 1>> ELSE <<"machine-config", 0>>
  ELSE IF at[1] = "machine-config"                           \* line 180 -> 183
    THEN IF ifaces > 0 THEN <<"network-interfaces", 1>> ELSE <<"actions", 0>>
  ELSE IF at[1] = "network-interfaces"                       \* the loop of 183-199
    THEN IF at[2] < ifaces THEN <<"network-interfaces", at[2] + 1>> ELSE <<"actions", 0>>
  ELSE <<"return", 0>>                                       \* line 212
\* configureAndBoot(socketPath, config) is called.
BootCall(drives, ifaces) ==
  /\ control = NoControl
  /\ control' = BootFrame(drives, ifaces)
  /\ UNCHANGED <<hostVars, pc, startVars, instVars, histVars, snapCalls, budget, gwVars, execs,
                 before, ctlVars, poll, relay, verdict, complete, made, deletion>>
\* One awaited firecrackerRequest and the test of its status.
BootRequest ==
  /\ control.pc = "requesting"
  /\ \E status \in ControlStatuses :
       LET next == BootAfter(control.at, control.drives, control.ifaces) IN
       control' = [control EXCEPT
                     !.sent = Append(@, control.at),
                     !.answers = Append(@, status),
                     !.at = IF StatusOk(status) THEN next ELSE control.at,
                     !.pc = IF ~StatusOk(status) THEN "threw"
                            ELSE IF next[1] = "return" THEN "returned" ELSE "requesting"]
  /\ UNCHANGED <<hostVars, pc, startVars, instVars, histVars, snapCalls, budget, gwVars, execs,
                 before, ctlVars, poll, relay, verdict, complete, made, deletion>>
NextBoot ==
  (\E drives \in 0 .. MaxDrives : \E ifaces \in 0 .. MaxIfaces : BootCall(drives, ifaces))
    \/ BootRequest
SpecBoot == Init /\ [][NextBoot]_vars

\* ---- the two waits of a start as the polls they are ----
\* firecracker-api.ts line 69 and line 86
SOCKET_TIMEOUT_MS == 10000
SOCKET_SLEEP_MS == 50
\* provider line 149 and line 157
HEALTH_ABORT_MS == 3000
HEALTH_SLEEP_MS == 500
\* provider line 356: options.snapshotId ? 10_000 : 60_000
healthTimeoutAlike(snapshotId) == 60000
healthTimeout(snapshotId) == IF snapshotId # NoSnapshot THEN 10000 ELSE 60000

\* `Date.now() - start < timeoutMs`, api line 72 and provider line 145
InTime(elapsed, timeoutMs) == elapsed < timeoutMs
\* the test at the head of the loop: one more probe, or the throw below it
LoopHead(p) == [p EXCEPT !.pc = IF InTime(p.elapsed, p.timeoutMs) THEN "probe" ELSE "threw"]

\* What a probe meets. The connect to the control socket succeeds or fails at
\* once; the fetch of /healthz is answered at once (ok or not), is refused at
\* once, or is aborted by AbortSignal.timeout.
Ready(v, kind) == IF kind = "socket" THEN Reachable(v) ELSE hv[v].state = "running"
ProbeOutcomes(kind) ==
  IF kind = "socket"
    THEN {[ok |-> TRUE, ms |-> 0], [ok |-> FALSE, ms |-> 0]}
    ELSE {[ok |-> TRUE, ms |-> 0], [ok |-> FALSE, ms |-> 0],
          [ok |-> FALSE, ms |-> HEALTH_ABORT_MS]}
SleepMs(kind) == IF kind = "socket" THEN SOCKET_SLEEP_MS ELSE HEALTH_SLEEP_MS

PollFrame ==
  UNCHANGED <<hostVars, pc, startVars, instVars, histVars, snapCalls, budget, gwVars, execs,
              before, ctlVars, control, relay, verdict, complete, made, deletion>>

\* the call of line 277 / 301 or of line 357: `start = Date.now()` and the
\* first test of the loop
WaitBegins(v) ==
  /\ pc[v] \in {"waitsock", "health"}
  /\ poll.pc = "idle"
  /\ poll' = LoopHead([pc |-> "head", kind |-> IF pc[v] = "waitsock" THEN "socket" ELSE "health",
                       by |-> v, elapsed |-> 0, ok |-> FALSE,
                       timeoutMs |-> IF pc[v] = "waitsock" THEN SOCKET_TIMEOUT_MS
                                     ELSE healthTimeout(opt[v])])
  /\ PollFrame
\* one probe: api lines 74-84, provider lines 147-153
WaitProbes(v) ==
  /\ poll.pc = "probe" /\ poll.by = v
  /\ \E o \in ProbeOutcomes(poll.kind) :
       /\ o.ok => Ready(v, poll.kind)
       /\ poll' = [poll EXCEPT !.elapsed = @ + o.ms, !.ok = o.ok,
                                !.pc = IF o.ok THEN "returned" ELSE "sleep"]
  /\ PollFrame
\* the sleep of api line 86 / provider line 157, then the test of the loop
WaitSleeps(v) ==
  /\ poll.pc = "sleep" /\ poll.by = v
  /\ poll' = LoopHead([poll EXCEPT !.elapsed = @ + SleepMs(poll.kind)])
  /\ PollFrame
\* the wait has returned or thrown, and the start goes on
WaitEnds(v) ==
  /\ poll.pc \in {"returned", "threw"} /\ poll.by = v
  /\ IF poll.kind = "socket"
       THEN IF poll.pc = "returned" THEN SocketWaitReturned(v) ELSE SocketWaitThrew(v)
       ELSE IF poll.pc = "returned" THEN HealthWaitReturned(v) ELSE HealthWaitThrew(v)
  /\ poll' = NoPoll
  /\ UNCHANGED <<hostVars, opt, tap, cur, snapshotMeta, vmRootfs, fcPid, proxies,
                 instVars, live, reservedBy, torn, snapCalls, budget, gwVars, execs, before,
                 ctlVars, control, relay, verdict, complete, made, deletion>>

\* Fresh starts, snapshots and restores, one call after the other, with the
\* two waits taken probe by probe.
PollStep(v) ==
  \/ AllocatorStep(v)
  \/ CopyRootfs(v)
  \/ Spawn(v)
  \/ ConfigureAndBoot(v)
  \/ StartPortProxy(v)
  \/ CreateSandbox(v)
  \/ RollbackKill(v)
  \/ RollbackDone(v)
  \/ RestoreStep(v)
  \/ WaitBegins(v)
  \/ WaitProbes(v)
  \/ WaitSleeps(v)
  \/ WaitEnds(v)
PollCall(v) ==
  \/ \E s \in {NoSnapshot} \cup SnapIds : Start(v, s)
  \/ \E s \in SnapIds : SnapshotCall(v, s)
NextPoll == \E v \in SeqVMs : (Quiet /\ PollCall(v)) \/ PollStep(v)
SpecPoll == InitChain /\ [][NextPoll]_vars
\* Every awaited call settles, and the continuation behind it then runs.
SpecPollFair == SpecPoll /\ WF_vars(\E v \in SeqVMs : PollStep(v))

\* ---- startPortProxy on its own: the connections of a proxy ----
\* connections accepted in one run
MaxConns == 2
\* the guests the proxies of this section point at
RelayGuests == {GuestIpOf(0), GuestIpOf(1)}

\* startPortProxy(guestIp, guestPort), lines 262-320, for the next of the
\* proxied ports: the server listens on a port the host picks (line 297)
ProxyListens ==
  /\ Cardinality(DOMAIN listeners) < Len(Ports)
  /\ \E g \in RelayGuests :
       listeners' = (FreePort :> [guestIp |-> g,
                                  guestPort |-> Ports[Cardinality(DOMAIN listeners) + 1]])
                    @@ listeners
  /\ UNCHANGED <<allocatedSubnets, tapDev, natRules, dirs, files, hv, pc, startVars, instVars,
                 histVars, snapCalls, budget, gwVars, execs, before, ctlVars, control, poll,
                 relay, verdict, complete, made, deletion>>

RelayFrame ==
  UNCHANGED <<hostVars, pc, startVars, instVars, histVars, snapCalls, budget, gwVars, execs,
              before, ctlVars, control, poll, verdict, complete, made, deletion>>

\* A socket is "connecting", "open" or "destroyed". A socket that meets an
\* error, or whose peer ends the connection (allowHalfOpen is off), destroys
\* itself; a destroyed socket emits 'close', after 'error' if there was one.
\* socket.destroy() on a destroyed socket does nothing.
Destroy(c, side, events) ==
  IF c[side] = "destroyed" THEN c
  ELSE [c EXCEPT ![side] = "destroyed", !.emitted = @ \cup events]
EventsOf(side) == {<<side, "error">>, <<side, "close">>}
Other(side) == IF side = "client" THEN "target" ELSE "client"
\* history: which socket of a pair ended first, how, and in which state
NoEnd == <<"none", "none", "none">>

\* the connection handler, lines 267-295: one createConnection to the guest
\* of the proxy, and the four listeners
Accept(h) ==
  /\ Len(relay) < MaxConns
  /\ relay' = Append(relay, [hostPort |-> h, client |-> "open", target |-> "connecting",
                              to |-> <<listeners[h].guestIp, listeners[h].guestPort>>,
                              outbound |-> 1, emitted |-> {}, first |-> NoEnd])
  /\ RelayFrame
\* the connect callback of lines 270-273: both directions are piped
TargetConnects(k) ==
  /\ relay[k].target = "connecting"
  /\ relay' = [relay EXCEPT ![k].target = "open"]
  /\ RelayFrame
\* what happens to a socket from outside: an error (for the target, also the
\* failed connect) or the end of the connection by the peer
SocketEnds(k, side, how) ==
  /\ relay[k][side] # "destroyed"
  /\ relay' = [relay EXCEPT
                 ![k] = [Destroy(@, side, IF how = "error" THEN EventsOf(side)
                                           ELSE {<<side, "close">>})
                           EXCEPT !.first = IF @ = NoEnd THEN <<side, how, relay[k][side]>>
                                            ELSE @]]
  /\ RelayFrame
\* which socket the listener of an event destroys: lines 276-294
ListenerIgnoresClose(e) == IF e[2] = "error" THEN Other(e[1]) ELSE "none"
Listener(e) == Other(e[1])
\* an emitted event reaches its listener; 'close' comes after 'error'
Dispatch(k, e) ==
  /\ e \in relay[k].emitted
  /\ e[2] = "close" => <<e[1], "error">> \notin relay[k].emitted
  /\ relay' = [relay EXCEPT
                 ![k] = IF Listener(e) = "none" THEN [@ EXCEPT !.emitted = @ \ {e}]
                        ELSE Destroy([@ EXCEPT !.emitted = @ \ {e}], Listener(e),
                                     {<<Listener(e), "close">>})]
  /\ RelayFrame
RelayEvent(k) ==
  \/ TargetConnects(k)
  \/ \E side \in {"client", "target"} : \E how \in {"error", "end"} : SocketEnds(k, side, how)
Dispatches == \E k \in DOMAIN relay : \E e \in relay[k].emitted : Dispatch(k, e)
NextRelay ==
  \/ ProxyListens
  \/ \E h \in DOMAIN listeners : Accept(h)
  \/ \E k \in DOMAIN relay : RelayEvent(k)
  \/ Dispatches
SpecRelay == Init /\ [][NextRelay]_vars
\* The event loop delivers every emitted event.
SpecRelayFair == SpecRelay /\ WF_vars(Dispatches)

\* ---- the validators of fc-helper.sh on their own ----
\* the longest argument built from the alphabet below
MaxArgLen == 3
ArgAlphabet == {"1", "7", "0", ".", "-", " ", ";", "a", "_", "/"}
RECURSIVE Repeat(_, _)
Repeat(c, n) == IF n = 0 THEN <<>> ELSE <<c>> \o Repeat(c, n - 1)
\* arguments a caller may pass: every short text, and the texts at the limits
\* of each validator
ArgSpecimens ==
  { <<"f", "c", "_", "t", "a", "p", ";">>,
    <<"1", "0", ".", "0", ".", "0", ".", "0", "/", "8">>,
    <<"1", "0", ".", "0", ".", "0", ".", "0">>,
    <<"1", ".", "2", ".", "3">>,
    <<"7", "0", "0", "0", "0">>, <<"6", "5", "5", "3", "5">>, <<"6", "5", "5", "3", "6">>,
    <<"0", "0", "0", "8", "0">>,
    <<".", ".", "/", ".", ".", "/", "e", "t", "c", "/", "p", "a", "s", "s", "w", "d">>,
    <<"/", "e", "t", "c", "/", "p", "a", "s", "s", "w", "d">>,
    Repeat("a", 15), Repeat("a", 16), Repeat("9", 19), Repeat("9", 20),
    IntMaxDigits,
    <<"9","2","2","3","3","7","2","0","3","6","8","5","4","7","7","5","8","0","8">> }
ArgTexts ==
  ArgSpecimens \cup UNION {[1 .. n -> ArgAlphabet] : n \in 0 .. MaxArgLen}
Validators == {"path", "tap", "ip", "port"}
\* validate_<validator> "$arg": returns, or prints an error and exits 1
Validate(validator, arg) ==
  /\ verdict = NoVerdict
  /\ verdict' = [validator |-> validator, arg |-> arg, accepted |-> Passes(validator, arg)]
  /\ UNCHANGED <<hostVars, pc, startVars, instVars, histVars, snapCalls, budget, gwVars, execs,
                 before, ctlVars, control, poll, relay, complete, made, deletion>>
NextValidate == \E validator \in Validators : \E arg \in ArgTexts : Validate(validator, arg)
SpecValidate == Init /\ [][NextValidate]_vars

\* ---- properties ----
Steps(l) == {l[k] : k \in 1 .. Len(l)}
\* The start of v returns its error in this step.
StartFails(v) == pc[v] # "failed" /\ pc'[v] = "failed"
\* The start of v has returned an instance and stop() has not been called on it.
Running(v) == pc[v] = "up" /\ ~stopped[v]

\* C1: no two allocations that are live at the same time (returned by
\* allocateTap or recreateTap and not yet passed to releaseTap) share a subnet
\* index, a TAP name or a guest IP.
C1_LiveAllocationsDistinct ==
  \A v, w \in VMs : \A a \in live[v], b \in live[w] :
    (v # w \/ a # b) =>
      /\ a.subnetIndex # b.subnetIndex
      /\ a.tapName # b.tapName
      /\ a.guestIp # b.guestIp

C3_RollbackAtEveryFailure ==
  [][\A v \in VMs :
       StartFails(v) =>
         /\ fcPid[v] # 0 => "kill" \in Steps(log'[v])
         /\ reservedBy'[v] = {}
         /\ VmDir(v) \notin dirs']_vars

\* C4: while an instance is running, no step of another VM's start, rollback,
\* stop or destroy changes the files of its VM directory (rootfs copy, socket,
\* log), its TAP device or the reservation of its subnet index.
Owned(v) ==
  <<[p \in {q \in DOMAIN files : IsUnder(VmDir(v), q)} |-> files[p]],
    tapDev[tap[v].subnetIndex],
    tap[v].subnetIndex \in allocatedSubnets>>
C4_ExclusiveOwnership ==
  [][\A v \in VMs : (Running(v) /\ Running(v)') => Owned(v)' = Owned(v)]_vars

\* C5: in every interleaving of allocateTap and releaseTap calls, no subnet
\* index is reserved for two callers at the same time.
C5_AtomicReservation ==
  \A v, w \in VMs : v # w => reservedBy[v] \cap reservedBy[w] = {}
\* Two allocateTap calls are suspended at a gateway call at the same time.
SetupPcs == {"setup_staledel", "setup_create", "setup_iface", "setup_nat"}
C5_Witness ==
  \E v, w \in VMs :
    /\ v # w /\ pc[v] \in SetupPcs /\ pc[w] \in SetupPcs
    /\ reservedBy[v] # {} /\ reservedBy[w] # {}

\* C6: stop() called again on a stopped instance makes no gateway call, closes
\* no proxy and changes nothing in the allocator; once stop() has returned,
\* each cleanup step has run exactly once, however often stop() was called.
CleanedUpOnce(v) ==
  [kill |-> 1, proxies |-> Len(proxies[v]), release |-> 1, unlink |-> 1]
C6_StopIdempotent ==
  /\ [](\A v \in VMs : (pc[v] = "up" /\ stopCalls[v] >= 1) => count[v] = CleanedUpOnce(v))
  /\ [][\A v \in VMs :
          (stopCalls[v] >= 1 /\ stopCalls'[v] > stopCalls[v]) =>
            /\ pc'[v] = pc[v]
            /\ UNCHANGED <<allocatedSubnets, tapDev, natRules, hv, listeners, count>>]_vars
\* stop() was called twice on an instance that had its port proxies.
C6_Witness ==
  \E v \in VMs :
    /\ pc[v] = "up" /\ stopCalls[v] = 2 /\ ~destroying[v]
    /\ Len(proxies[v]) = NumPorts /\ count[v] = CleanedUpOnce(v)

\* C7: whichever of its steps fail, stop() returns having attempted kill,
\* close proxies, release network and delete socket in this order, and then
\* the socket file is gone and the instance's subnet index is not reserved.
StopReturns(v) == pc[v] = "rel_tapdel" /\ ret[v] = "stop" /\ pc'[v] = "up"
SnapshotOrder == <<"snapshot", "pause", "create", "copy", "metadata", "resume">>
Position(step) == CHOOSE k \in 1 .. Len(SnapshotOrder) : SnapshotOrder[k] = step
Attempts(l) == SelectSeq(l, LAMBDA x : x \in Steps(SnapshotOrder))
InOrder(l) == \A i, j \in 1 .. Len(l) : i < j => Position(l[i]) < Position(l[j])
SnapshotReturned(v) == pc[v] = "up" /\ log[v] # <<>> /\ log[v][1] = "snapshot"
C8_SnapshotSequence ==
  /\ [](\A v \in VMs :
          SnapshotReturned(v) =>
            /\ InOrder(Attempts(log[v]))
            /\ "create" \in Steps(log[v]) <=> "pause failed" \notin Steps(log[v])
            /\ "create" \in Steps(log[v]) =>
                 /\ Len(SelectSeq(log[v], LAMBDA x : x = "resume")) = 1
                 /\ log[v][Len(log[v]) - 1] = "resume"
                 /\ log[v][Len(log[v])] = "resumed" => hv[v].state = "running"
            /\ "metadata" \in Steps(log[v]) =>
                 /\ "copy" \in Steps(log[v])
                 /\ {"create failed", "copy failed"} \cap Steps(log[v]) = {})
  /\ [][\A s \in SnapIds :
          (/\ MetadataPath(s) \in DOMAIN files'
           /\ MetadataPath(s) \in DOMAIN files => files'[MetadataPath(s)] # files[MetadataPath(s)])
          => \E v \in VMs :
               /\ pc[v] = "sn_create" /\ snapArg[v] = s
               /\ CreatePossible(v, s) /\ RootfsPath(v) \in DOMAIN files
               /\ SnapshotBin(s) \in DOMAIN files' /\ SnapshotRootfs(s) \in DOMAIN files']_vars
\* snapshot() has returned after a failed copy, and the VM runs again.
C8_Witness ==
  \E v \in VMs :
    /\ pc[v] = "up" /\ hv[v].state = "running"
    /\ log[v] = <<"snapshot", "pause", "create", "copy", "copy failed", "resume", "resumed">>

\* C9: a start from a snapshot that snapshot() has captured, of a fresh or of
\* a restored instance, restores with the TAP name, guest IP and guest MAC
\* the hypervisor had at capture and copies the rootfs to the path the
\* hypervisor was using for its disk at capture. (Snapshots whose capture
\* met a failing disk are left out.)
Captured(s) == files[SnapshotBin(s)]
C9_RestoreAsCaptured ==
  \A v \in VMs :
    (pc[v] = "copy" /\ opt[v] # NoSnapshot /\ opt[v] \notin torn) =>
      /\ tap[v].tapName = Captured(opt[v]).tapName
      /\ tap[v].guestIp = Captured(opt[v]).guestIp
      /\ tap[v].guestMac = Captured(opt[v]).guestMac
      /\ vmRootfs[v] = Captured(opt[v]).disk

\* C10: on a restore whose metadata records tapName, guestIp and guestMac, the
\* fresh allocation has been released (its index is no longer reserved unless
\* it is the recorded one) and the start, then the instance, holds an
\* allocation with the recorded values; when they are not recorded, the fresh
\* allocation is kept, reserved and live.
Recorded(m) == \A f \in {"tapName", "guestIp", "guestMac"} : f \in DOMAIN m
PastNetworkSetup == {"copy", "spawn", "waitsock", "load", "proxy", "health", "create_sandbox", "up"}
C10_RestoreNetwork ==
  \A v \in VMs :
    (opt[v] # NoSnapshot /\ pc[v] \in PastNetworkSetup) =>
      IF Recorded(snapshotMeta[v])
        THEN /\ tap[v].tapName = snapshotMeta[v].tapName
             /\ tap[v].guestIp = snapshotMeta[v].guestIp
             /\ tap[v].guestMac = snapshotMeta[v].guestMac
             /\ pc[v] = "copy" =>
                  /\ relArg[v] = TapAllocation(relArg[v].subnetIndex)
                  /\ live[v] = {tap[v]}
                  /\ relArg[v].subnetIndex \in allocatedSubnets
                       => relArg[v].subnetIndex = tap[v].subnetIndex
        ELSE /\ tap[v] = TapAllocation(tap[v].subnetIndex)
             /\ pc[v] = "copy" =>
                  /\ relArg[v] = NoTap
                  /\ live[v] = {tap[v]}
                  /\ tap[v].subnetIndex \in allocatedSubnets
\* A restore with recorded values has released a fresh allocation with another
\* index and holds the recorded one.
C10_Witness ==
  \E v \in VMs :
    /\ pc[v] = "copy" /\ opt[v] # NoSnapshot /\ Recorded(snapshotMeta[v])
    /\ relArg[v].subnetIndex # tap[v].subnetIndex
    /\ relArg[v].subnetIndex \notin allocatedSubnets
    /\ tap[v].tapName = snapshotMeta[v].tapName

\* ---- C11: devices left by an earlier run ----
\* allocateTap of VM v is between its reservation and its return or throw.
InAllocateTap(v) ==
  ret[v] = "allocate" /\ pc[v] \in {"setup_staledel", "setup_create", "setup_iface",
                                     "setup_nat", "setup_cleanup"}
\* The step in which allocateTap of VM v returns index i.
AllocateTapReturns(v, i) ==
  /\ InAllocateTap(v) /\ pc[v] = "setup_nat"
  /\ tap'[v] # tap[v] \/ live'[v] # live[v]
  /\ cur[v].subnetIndex = i

\* C11: a device fc_tap<N> that existed when the process started (tapDev[N] =
\* Orphan) is never deleted by a step of allocateTap, and allocateTap never
\* returns N.  Under SpecAlloc no index of such a device is ever released
\* before allocateTap reserves it: releaseTap only takes allocations that
\* allocateTap returned.
C11_OrphanTapsKept ==
  [][\A v \in VMs : \A i \in Idx :
       (InAllocateTap(v) /\ pc'[v] # pc[v] /\ tapDev[i] = Orphan)
         => /\ tapDev'[i] = Orphan
            /\ ~AllocateTapReturns(v, i)]_vars

\* ---- C12: the kill subcommand ----
\* C12: every signal the kill subcommand delivers reaches a process whose
\* command name is the hypervisor's, and a signal sent for the stop() or the
\* rollback of an instance reaches the process that was spawned for that
\* instance, never another process that holds the recorded PID by then.
C12_KillOnlyOwnHypervisor ==
  \A s \in signals :
    /\ s.hit.comm = HYPERVISOR_COMM
    /\ s.by # 0 => s.hit.vm = s.by
\* ---- C13: validation of the arguments ----
\* C13: every argument position a privileged command of the last run was
\* given had been accepted by a validate_* function.
C13_ValidatedBeforeUse ==
  \A k \in DOMAIN ran : ran[k].uses \subseteq validated

\* ---- C14: the error of a failed start ----
\* The catch block of startFirecrackerSandbox is running for VM v.
InRollback(v) ==
  pc[v] = "rb_kill" \/ (ret[v] = "rollback" /\ pc[v] \in {"rel_iface", "rel_nat", "rel_tapdel"})
\* The errors a step of a start can fail with.
StartErrors ==
  {"recreateTap", "Base rootfs not found", "Snapshot not found", "copyRootfs", "spawn",
   "waitForSocket", "loadSnapshot", "startPortProxy", "waitForSandboxd", "createSandbox"}
    \cup {BootPaths[k] : k \in DOMAIN BootPaths}

GuestAnswered(v) ==
  /\ execs[v].status >= 200 /\ execs[v].status < 300
  /\ execs[v].body # <<>> /\ execs[v].body[1] = "json"
\* C15: a finished exec() has not thrown; when the daemon was unreachable or
\* timed out, answered outside 200..299, or sent a body that cannot be read
\* or parsed, the result is exit code 1, empty stdout and non-empty stderr;
\* otherwise it is the result the guest sent.
C15_ExecNeverThrows ==
  \A v \in VMs :
    execs[v].pc = "done" =>
      /\ ~execs[v].out.threw
      /\ IF GuestAnswered(v)
           THEN execs[v].out = execs[v].body[2]
           ELSE /\ execs[v].out.exit_code = 1
                /\ execs[v].out.stdout = <<>>
                /\ execs[v].out.stderr # <<>>
\* One exec() met a 500 answer, another a 2xx answer whose body is no JSON.
C15_Witness ==
  \E v, w \in VMs :
    /\ execs[v].pc = "done" /\ execs[v].status = 500 /\ execs[v].body = <<>>
    /\ execs[w].pc = "done" /\ execs[w].status = 200 /\ execs[w].body = <<"<html>">>

\* ---- C16: destroy ----
\* The destroy() of v, called on a running instance, returns in this step.
DestroyReturns(v) ==
  pc[v] = "rel_tapdel" /\ ret[v] = "stop" /\ destroying[v] /\ pc'[v] = "up"
\* C16: when destroy() returns, every cleanup step of stop() has run once,
\* the VM directory does not exist, no file is left below it, and the rootfs
\* copy the hypervisor of this instance was started on does not exist.
C16_DestroyRemovesAll ==
  [][\A v \in VMs :
       DestroyReturns(v) =>
         /\ count'[v] = CleanedUpOnce(v)
         /\ VmDir(v) \notin dirs'
         /\ \A p \in DOMAIN files' : ~IsUnder(VmDir(v), p)
         /\ vmRootfs[v] \notin DOMAIN files']_vars


\* ---- C17: allocateTap then releaseTap ----
\* C17: when a caller's allocateTap has returned an allocation and its next
\* call, with no other call in between, is releaseTap of that allocation,
\* then once releaseTap has returned the set of reserved indices is exactly
\* the set it was when allocateTap was called.
C17_AllocateReleaseRoundTrip ==
  before.phase = "released" => allocatedSubnets = before.set
\* Such a pair has returned where the set held an index above a free one.
C17_Witness ==
  /\ before.phase = "released"
  /\ \E i \in before.set : \E j \in 0 .. (i - 1) : j \notin before.set
  /\ pc[before.by] = "idle"


\* ---- C18: recreateTap of an allocation ----
\* C18: recreateTap called with the tapName, guestIp and guestMac of the
\* allocation made for index N derives the hostIp and the subnetIndex of
\* that allocation (and hands the three fields back as given).
C18_RecreateSameBlock ==
  \A c \in VMs :
    pc[c] = "recomputed" =>
      /\ cur[c].hostIp = tap[c].hostIp
      /\ cur[c].subnetIndex = tap[c].subnetIndex
      /\ cur[c] = tap[c]
\* recreateTap has derived the block of the last index of the address space.
C18_Witness ==
  pc[1] = "recomputed" /\ tap[1].subnetIndex = MAX_SUBNETS - 1 /\ cur[1].subnetIndex # -1

\* ---- C19: the addresses of an index ----
\* The place of a 172.16.x.y address in 172.16.0.0/16
Offset(ip) == ip[3] * 256 + ip[4]
\* The allocations derived so far: held by a caller, or being set up.
Derived == ({tap[c] : c \in VMs} \cup {cur[c] : c \in VMs}) \ {NoTap}
\* C19: every derived allocation has an index idx in 0..16383, hostIp
\* 172.16.(idx*4 div 256).((idx*4 mod 256)+1), guestIp the same with the last
\* octet one higher, tapName fc_tap<idx> in decimal; every octet is in 0..255
\* and both addresses are the two usable ones of the idx-th /30 block.
C19_AddressesOfIndex ==
  \A a \in Derived :
    LET idx == a.subnetIndex IN
      /\ idx \in 0 .. 16383
      /\ a.hostIp = <<172, 16, (idx * 4) \div 256, ((idx * 4) % 256) + 1>>
      /\ a.guestIp = <<172, 16, a.hostIp[3], a.hostIp[4] + 1>>
      /\ a.tapName = <<"f", "c", "_", "t", "a", "p">> \o Decimal(idx)
      /\ \A i \in 1 .. 4 : a.hostIp[i] \in 0 .. 255 /\ a.guestIp[i] \in 0 .. 255
      /\ Offset(a.hostIp) = 4 * idx + 1
      /\ Offset(a.guestIp) = 4 * idx + 2
\* allocateTap has derived the allocation of the last index, 16383.
C19_Witness ==
  /\ pc[1] = "setup_staledel" /\ ret[1] = "caller" /\ cur[1].subnetIndex = 16383
  /\ cur[1].hostIp = <<172, 16, 255, 253>> /\ cur[1].guestIp = <<172, 16, 255, 254>>

\* ---- C20: the address space is used up ----
AllReserved(set) == (0 .. 16383) \subseteq set
\* C20: an allocateTap called when every index of 0..16383 was reserved has
\* failed with the exhaustion error, with no gateway call begun and the set
\* as it was; and no allocateTap ever derives an index of 16384 or more.
C20_Exhaustion ==
  /\ \A c \in VMs :
       before.by = c /\ AllReserved(before.set) =>
         /\ pc[c] = "failed"
         /\ startErr[c] = "No more available subnets"
         /\ allocatedSubnets = before.set
         /\ cur[c] = NoTap /\ ret[c] = ""
  /\ \A c \in VMs : cur[c].subnetIndex < 16384
\* allocateTap was called with all 16384 indices reserved.
C20_Witness ==
  before.by = 1 /\ AllReserved(before.set) /\ pc[1] = "failed"


\* ---- C21: prerequisite errors ----
\* A file the start with options.snapshotId = s needs is missing.
MissingPrerequisite(s) ==
  \/ BinaryPath \notin DOMAIN files
  \/ KernelPath \notin DOMAIN files
  \/ s = NoSnapshot /\ BaseRootfs \notin DOMAIN files
PrerequisiteErrors ==
  {"Firecracker binary not found", "Kernel not found", "Base rootfs not found"}
\* C21: a start called while the hypervisor binary, the kernel image or (for
\* a fresh boot) the base rootfs is missing has failed with a prerequisite
\* error by its first suspension, having created no VM directory, reserved
\* no subnet index and begun no gateway call.
C21_PrerequisitesFirst ==
  [][\A v \in VMs :
       pc[v] = "idle" /\ pc'[v] # "idle" /\ MissingPrerequisite(opt'[v]) =>
         /\ pc'[v] = "failed"
         /\ startErr'[v] \in PrerequisiteErrors
         /\ dirs' = dirs
         /\ allocatedSubnets' = allocatedSubnets
         /\ cur'[v] = NoTap]_vars


\* ---- C22: the order of a start ----
\* The allocator has returned the allocation the start goes on with: the
\* device and the NAT rules exist, no allocator call of the start is pending,
\* and on a restore with recorded network fields it is the recorded one.
NetworkComplete(v) ==
  /\ tap[v] # NoTap /\ tap[v] \in live[v]
  /\ tapDev[tap[v].subnetIndex] # NoCreator
  /\ natRules[tap[v].subnetIndex] >= 1
  /\ opt[v] # NoSnapshot /\ {"tapName", "guestIp", "guestMac"} \subseteq DOMAIN snapshotMeta[v] =>
       /\ tap[v].tapName = snapshotMeta[v].tapName
       /\ tap[v].guestIp = snapshotMeta[v].guestIp
\* The copy of the rootfs is at the path the start will hand to the hypervisor.
RootfsPlaced(v) == vmRootfs[v] \in DOMAIN files /\ files[vmRootfs[v]].kind = "rootfs"
\* One listener per well-known port is open.
AllProxiesUp(v) ==
  /\ Len(proxies[v]) = Len(Ports)
  /\ \A k \in 1 .. Len(Ports) : proxies[v][k].hostPort \in DOMAIN listeners
\* The points of a start that come before its spawn call has been made.
BeforeSpawn(v) ==
  \/ pc[v] \in {"setup_staledel", "setup_create", "setup_iface", "setup_nat", "setup_cleanup"}
       /\ ret[v] \in {"allocate", "recreate"}
  \/ pc[v] \in {"rel_iface", "rel_nat", "rel_tapdel"} /\ ret[v] = "discard"
  \/ pc[v] \in {"copy", "spawn"}
\* C22: in every start, when the spawn call is made the allocation the VM
\* will use is complete and the rootfs is placed, and no hypervisor of the
\* start exists earlier; on a restore the rootfs is copied only once the
\* re-allocation is complete; and the first health-check request is sent
\* only when a proxy for every port is listening.
C22_StartOrder ==
  \A v \in VMs :
    /\ BeforeSpawn(v) => hv[v].state = "none" /\ fcPid[v] = 0
    /\ pc[v] = "spawn" => NetworkComplete(v) /\ RootfsPlaced(v)
    /\ pc[v] = "copy" => NetworkComplete(v) /\ hv[v].state = "none"
    /\ pc[v] \in {"proxy", "health"} => hv[v].state # "none"
    /\ pc[v] = "health" => AllProxiesUp(v)
\* A restore that re-allocated the recorded network is about to send its
\* first health-check request.
C22_Witness ==
  \E v \in VMs :
    /\ pc[v] = "health" /\ opt[v] # NoSnapshot /\ AllProxiesUp(v)
    /\ "tapName" \in DOMAIN snapshotMeta[v] /\ tap[v].tapName = snapshotMeta[v].tapName


\* ---- C23: the states of a VM ----
Lifecycle ==
  {<<"none", "unconfigured">>, <<"unconfigured", "configured">>, <<"configured", "running">>,
   <<"running", "paused">>, <<"paused", "running">>}
     \cup {<<x, "dead">> : x \in {"unconfigured", "configured", "running", "paused"}}
\* The instance has been stopped, or its hypervisor has been killed.
Stopped(v) == stopped[v] \/ hv[v].state = "dead"
\* This step sends a pause, resume or snapshot-create request for v.
IssuesCreate(v) == pc[v] = "sn_paused" /\ pc'[v] = "sn_create"
IssuesRequest(v) ==
  \/ ctl[v] = "idle" /\ ctl'[v] # "idle"
  \/ pc[v] = "up" /\ pc'[v] = "sn_pause"
  \/ IssuesCreate(v)
  \/ pc[v] = "sn_create" /\ pc'[v] = "sn_resume"
\* C23: whatever calls are made on an instance and however they overlap, its
\* VM only moves from Unconfigured to Configured to Running, between Running
\* and Paused, and to Stopped; a snapshot-create request is sent only while
\* the VM is Paused; and no pause, resume or snapshot-create request is sent
\* once the instance is Stopped.
C23_Lifecycle ==
  [][\A v \in VMs :
       /\ hv'[v].state # hv[v].state => <<hv[v].state, hv'[v].state>> \in Lifecycle
       /\ IssuesCreate(v) => hv[v].state = "paused"
       /\ IssuesRequest(v) => ~Stopped(v)]_vars
\* The parts of C23 on their own, to see which of them the code keeps.
C23_TransitionsOnly ==
  [][\A v \in VMs :
       hv'[v].state # hv[v].state => <<hv[v].state, hv'[v].state>> \in Lifecycle]_vars
C23_CreateOnlyPaused ==
  [][\A v \in VMs : IssuesCreate(v) => hv[v].state = "paused"]_vars
C23_NoneOnceStopped ==
  [][\A v \in VMs : IssuesRequest(v) => ~Stopped(v)]_vars


\* ---- C24: the status of a control answer ----
\* The text `part` occurs in the text `whole`.
Contains(whole, part) ==
  \E i \in 0 .. Len(whole) - Len(part) : SubSeq(whole, i + 1, i + Len(part)) = part
\* The digits of a status code, written out.
StatusText(status) ==
  IF status = 0 THEN <<"0">>
  ELSE <<ToString(status \div 100), ToString((status \div 10) % 10), ToString(status % 10)>>
\* C24: a control call that was answered returns normally exactly when the
\* status is 200 or 204; for any other status, other 2xx codes included, it
\* throws an error whose message contains the status and the body.
C24_ControlStatus ==
  control.pc = "done" =>
    /\ ~control.threw <=> control.status \in {200, 204}
    /\ control.threw =>
         /\ Contains(control.message, StatusText(control.status))
         /\ Contains(control.message, control.body)
         /\ control.message[1] = ControlCalls[control.call]
\* createSnapshot has thrown on a 201 answer with a body.
C24_Witness ==
  /\ control.pc = "done" /\ control.call = 8 /\ control.status = 201
  /\ control.body = <<"f", "a", "u", "l", "t">> /\ control.threw


\* ---- C25: the port mappings of a started instance ----
\* The start of v has returned an instance that has not been stopped.
Started(v) == pc[v] = "up" /\ ~stopped[v]
\* The host port on which a proxy listens that connects to port g of v's guest.
ProxyFor(v, g) ==
  {p \in DOMAIN listeners : listeners[p] = [guestIp |-> tap[v].guestIp, guestPort |-> g]}
\* C25: a start that succeeded, fresh or restored, has returned one port
\* mapping per well-known guest port, in the order of CONTAINER_PORTS; for
\* each of these ports getHostPort, the hostPorts map and the URL (if the
\* port has one) carry the host port of the proxy that was created for that
\* guest port, and getHostPort is undefined for every other port.
C25_PortMappings ==
  \A v \in VMs :
    Started(v) =>
      /\ [k \in 1 .. Len(proxies[v]) |-> proxies[v][k].guestPort] = Ports
      /\ \A k \in 1 .. Len(Ports) :
           LET g == Ports[k] IN
             /\ ProxyFor(v, g) # {}
             /\ getHostPort(proxies[v], g) \in ProxyFor(v, g)
             /\ proxies[v][k].hostPort = getHostPort(proxies[v], g)
             /\ HostPortsMap(proxies[v])[g] = Decimal(getHostPort(proxies[v], g))
             /\ g \in UrlPorts =>
                  makeUrl(HostPortsMap(proxies[v]), g)
                    = <<"http://", "localhost", ":">> \o Decimal(getHostPort(proxies[v], g))
      /\ DOMAIN HostPortsMap(proxies[v]) = {Ports[k] : k \in 1 .. Len(Ports)}
      /\ \A g \in {SANDBOXD_PORT, 80, 0} : getHostPort(proxies[v], g) = -1
\* A fresh start and a restore have both returned, with different host ports
\* for the same guest port.
C25_Witness ==
  \E v, w \in VMs :
    /\ Started(v) /\ opt[v] = NoSnapshot
    /\ Started(w) /\ opt[w] # NoSnapshot
    /\ getHostPort(proxies[v], Ports[Len(Ports)]) # getHostPort(proxies[w], Ports[Len(Ports)])
    /\ getHostPort(proxies[w], Ports[Len(Ports)]) > 0

\* ---- C26: the waits of a start are bounded polls ----
InStart(v) == ~Returned(v) /\ log[v] # <<>> /\ log[v][1] = "mkdir"
\* a wait probes only before its timeout, goes on only after a failed probe,
\* returns only on a successful one, and throws only once the timeout is over
PollBounded ==
  /\ poll.pc = "probe" => poll.elapsed < poll.timeoutMs
  /\ poll.ok <=> poll.pc = "returned"
  /\ poll.pc = "threw" => poll.elapsed >= poll.timeoutMs
  /\ poll.elapsed < poll.timeoutMs + HEALTH_ABORT_MS + HEALTH_SLEEP_MS
\* ten seconds for the control socket, sixty for the guest of a fresh boot
\* and less than that for the guest of a restore
PollTimeouts ==
  poll.pc # "idle" =>
    /\ poll.timeoutMs > 0
    /\ poll.kind = "socket" => poll.timeoutMs = 10000
    /\ poll.kind = "health" /\ opt[poll.by] = NoSnapshot => poll.timeoutMs = 60000
    /\ poll.kind = "health" /\ opt[poll.by] # NoSnapshot => poll.timeoutMs < 60000
\* C26: each wait of a start is a bounded poll (first successful probe, or a
\* timeout error, the health timeout of a restore being the shorter one), and
\* every start that has begun returns, with an instance or with an error, when
\* every awaited call settles.
C26_BoundedWaits ==
  /\ [](PollBounded /\ PollTimeouts)
  /\ \A v \in SeqVMs : InStart(v) ~> Returned(v)
\* the health wait of a restore has given up after its ten seconds, and the
\* start has returned with that error
C26_Witness ==
  \E v \in SeqVMs :
    /\ pc[v] = "failed" /\ startErr[v] = "waitForSandboxd" /\ opt[v] # NoSnapshot
    /\ poll = NoPoll

\* ---- C27: the two sockets of a relayed connection ----
OneOutbound ==
  \A k \in DOMAIN relay :
    /\ relay[k].outbound = 1
    /\ relay[k].hostPort \in DOMAIN listeners
    /\ relay[k].to = <<listeners[relay[k].hostPort].guestIp,
                       listeners[relay[k].hostPort].guestPort>>
Gone(k, side) == k \in DOMAIN relay /\ relay[k][side] = "destroyed"
\* C27: every accepted connection has exactly one outbound connection, to the
\* guest address and port of its proxy, and once one socket of the pair has
\* closed or met an error (a failed connect included) the other one is
\* destroyed in the end.
C27_RelayPairs ==
  /\ []OneOutbound
  /\ \A k \in 1 .. MaxConns : \A side \in {"client", "target"} :
       Gone(k, side) ~> Gone(k, Other(side))
\* the connect to the guest failed, and the client socket has been destroyed
\* by the listener of the target's 'error'
C27_Witness ==
  \E k \in DOMAIN relay :
    /\ relay[k].first = <<"target", "error", "connecting">>
    /\ relay[k].client = "destroyed"
    /\ <<"target", "error">> \notin relay[k].emitted
    /\ <<"target", "close">> \in relay[k].emitted

\* ---- C28: a snapshot's files once snapshot() has returned ----
SnapshotPaths(s) == {SnapshotBin(s), MemBin(s), SnapshotRootfs(s), MetadataPath(s)}
Untouched(s) ==
  \A p \in SnapshotPaths(s) : p \in DOMAIN files /\ p \in DOMAIN files' /\ files'[p] = files[p]
Deleted(s) == s \in complete /\ s \notin complete'
\* C28: after snapshot(id) has returned normally, every step of every later
\* call leaves the four files of snapshot id as they are, unless the step is
\* deleteSnapshot(id).
C28_SnapshotReadOnly ==
  [][\A s \in SnapIds : s \in complete => Untouched(s) \/ Deleted(s)]_vars

\* ---- C29: what the validators reject ----
HasDotDot(a) == \E k \in DOMAIN a : k < Len(a) /\ a[k] = "." /\ a[k + 1] = "."
\* the text splits at its dots into exactly four groups, each of one digit or more
FourDigitGroups(a) ==
  \E i, j, k \in DOMAIN a :
    /\ 1 < i /\ i + 1 < j /\ j + 1 < k /\ k < Len(a)
    /\ a[i] = "." /\ a[j] = "." /\ a[k] = "."
    /\ \A n \in DOMAIN a \ {i, j, k} : a[n] \in Digits
\* a decimal number that is not one of 1 .. 65535
PortOutOfRange(a) ==
  /\ a # <<>> /\ \A n \in DOMAIN a : a[n] \in Digits
  /\ LET s == StripZeros(a) IN s = <<>> \/ Len(s) > 5 \/ ParseInt(s) > 65535
Rejected(validator, bad) ==
  verdict.validator = validator /\ bad => ~verdict.accepted
\* C29: validate_tap rejects a name with a character outside letters, digits
\* and underscore or longer than 15 characters; validate_ip rejects what is
\* not four dot-separated digit groups; validate_port rejects every number
\* outside 1..65535; validate_path rejects a path with '..', whitespace or a
\* leading '-'.
C29_ValidatorsReject ==
  /\ Rejected("tap", Len(verdict.arg) > 15
                     \/ \E k \in DOMAIN verdict.arg :
                          verdict.arg[k] \notin Letters \cup Digits \cup {"_"})
  /\ Rejected("ip", ~FourDigitGroups(verdict.arg))
  /\ Rejected("port", PortOutOfRange(verdict.arg))
  /\ Rejected("path", \/ HasDotDot(verdict.arg)
                      \/ \E k \in DOMAIN verdict.arg : verdict.arg[k] = " "
                      \/ (verdict.arg # <<>> /\ verdict.arg[1] = "-"))

\* ---- C30: the index allocateTap takes ----
IsLeastFree(i, set) == i \notin set /\ \A j \in 0 .. (i - 1) : j \in set
\* the step of lines 118-127 of an allocateTap by c
Allocates(c) == before' # before /\ before'.by = c /\ before'.phase = "allocating"
\* C30: an allocateTap called while some index below 16384 is free reserves
\* the smallest index that is not in the reserved set, and the allocation it
\* returns carries that index.
C30_SmallestFreeIndex ==
  /\ [][\A c \in VMs :
          Allocates(c) /\ ~AllReserved(allocatedSubnets) =>
            /\ cur'[c] # NoTap /\ cur'[c].subnetIndex < 16384
            /\ IsLeastFree(cur'[c].subnetIndex, allocatedSubnets)
            /\ allocatedSubnets' = allocatedSubnets \cup {cur'[c].subnetIndex}]_vars
  /\ [](before.phase = "held" =>
          IsLeastFree(tap[before.by].subnetIndex, before.set))
\* allocateTap has returned an index that lies between two reserved ones
C30_Witness ==
  /\ before.phase = "held"
  /\ \E j, k \in before.set : j < tap[before.by].subnetIndex /\ tap[before.by].subnetIndex < k
  /\ tap[before.by].subnetIndex \in allocatedSubnets


\* ---- C31: what a failed allocateTap / recreateTap leaves ----
\* The step in which the catch of lines 156-165 / 211-219 rethrows.
SetupThrows(v) == pc[v] = "setup_cleanup" /\ pc'[v] # "setup_cleanup"
\* What the call in progress created is gone from the host after the step.
NothingLeft(v) ==
  /\ made[v].tap => tapDev'[cur[v].subnetIndex] # v
  /\ made[v].nat = 0 \/ natRules'[cur[v].subnetIndex] = 0
\* The error the caller gets is the one of the gateway step that failed.
OriginalError(v) ==
  \/ ret[v] = "allocate" /\ pc'[v] = "failed" /\ startErr'[v] = "allocateTap"
  \/ ret[v] = "recreate" /\ startErr'[v] = "recreateTap"
\* C31: when tap-create, the default-interface lookup or nat-setup fails
\* inside allocateTap or recreateTap, the index the call reserved is out of the
\* reserved set when the call throws, the throw follows a tap-delete of its
\* TAP name and carries the error of the failed step whatever that tap-delete
\* did, and neither a TAP device nor a NAT rule created by the call remains.
C31_FailedSetupCleansUp ==
  [][\A v \in VMs : SetupThrows(v) =>
        /\ cur[v].subnetIndex \notin allocatedSubnets'
        /\ OriginalError(v)
        /\ NothingLeft(v)]_vars
\* The throw also holds once the NAT rules are left out of the account.
C31_IndexAndError ==
  [][\A v \in VMs : SetupThrows(v) =>
        /\ cur[v].subnetIndex \notin allocatedSubnets'
        /\ OriginalError(v)]_vars

\* The NAT rules alone: a nat-setup that fails after an `iptables -A`.
C31_NoRuleLeft ==
  [][\A v \in VMs : SetupThrows(v) =>
        (made[v].nat = 0 \/ natRules'[cur[v].subnetIndex] = 0)]_vars


\* ---- C32: the order of configureAndBoot's requests ----
\* The requests of a call with the given numbers of drives and interfaces,
\* in the order the claim gives.
BootPlan(drives, ifaces) ==
  <<<<"boot-source", 0>>>> \o [i \in 1 .. drives |-> <<"drives", i>>]
    \o <<<<"machine-config", 0>>>> \o [i \in 1 .. ifaces |-> <<"network-interfaces", i>>]
    \o <<<<"actions", 0>>>>
Success(status) == status \in {200, 204}
InBoot == control.pc \in {"requesting", "threw", "returned"}
\* C32: configureAndBoot issues its requests in the order boot source, each
\* drive, machine config, each network interface, start action; the start
\* action is issued only after every request before it was answered with a
\* success status, a request answered with any other status is the last one
\* issued, and the call returns only when all were issued and succeeded.
C32_BootOrder ==
  InBoot =>
    LET plan == BootPlan(control.drives, control.ifaces)
        n == Len(control.sent)
    IN /\ n <= Len(plan) /\ control.sent = SubSeq(plan, 1, n)
       /\ \A k \in 1 .. n :
            /\ control.sent[k][1] = "actions" =>
                 /\ k = Len(plan)
                 /\ \A j \in 1 .. k - 1 : Success(control.answers[j])
            /\ ~Success(control.answers[k]) => k = n /\ control.pc = "threw"
       /\ control.pc = "returned" =>
            n = Len(plan) /\ \A k \in 1 .. n : Success(control.answers[k])
\* With two drives and two interfaces the second interface request was
\* answered 400: six requests were issued and the start action was not.
C32_Witness ==
  /\ InBoot /\ control.pc = "threw" /\ control.drives = 2 /\ control.ifaces = 2
  /\ Len(control.sent) = 6 /\ control.sent[6] = <<"network-interfaces", 2>>
  /\ control.answers[6] = 400


\* ---- C33: isPaused and the state of the VM ----
\* The instance of v is running and no call on it is in progress.
AtRest(v) == pc[v] = "up" /\ ctl[v] = "idle" /\ ~stopped[v] /\ HvAlive(v)
\* pause() or resume() of v throws in this step: the request could not be
\* answered with success, or was not although it could.
CtlThrows(v) ==
  ctl[v] # "idle" /\ ctl'[v] = "idle" /\ (~VmStateChangePossible(v) \/ budget' # budget)
\* C33: after any sequence of pause(), resume() and snapshot() calls on a
\* running instance isPaused is true exactly when the hypervisor's VM is
\* paused, and a pause() or resume() that fails leaves isPaused as it was.
C33_IsPausedTracksVm ==
  [][\A v \in VMs :
       /\ AtRest(v)' => (isPaused'[v] <=> hv'[v].state = "paused")
       /\ CtlThrows(v) => isPaused'[v] = isPaused[v]]_vars
\* The second half alone: a failed pause() or resume() changes no flag.
C33_FailedCallKeepsFlag ==
  [][\A v \in VMs : CtlThrows(v) => isPaused'[v] = isPaused[v]]_vars
\* The first half as long as snapshot() has not been called: it is the
\* resume of snapshot()'s finally that parts the flag from the VM.
C33_WithoutSnapshot ==
  [][\A v \in VMs : (AtRest(v)' /\ snapCalls' = 0)
                       => (isPaused'[v] <=> hv'[v].state = "paused")]_vars


\* ---- C34: the proxies of a start that fails ----
\* The host ports of the proxy listeners the start of v has opened.
OpenedBy(v) == {proxies[v][k].hostPort : k \in 1 .. Len(proxies[v])}
\* C34: when a start fails after it has started one or more port proxies,
\* every proxy listener that start opened is closed when the error is
\* returned to the caller.
C34_FailedStartClosesProxies ==
  [][\A v \in VMs : StartFails(v) => OpenedBy(v) \cap DOMAIN listeners' = {}]_vars


\* ---- C35: the rollback of a restore whose recreateTap failed ----
\* A step of the releaseTap that the catch of the start of v runs after its
\* recreateTap has thrown.
RecreateRollbackStep(v) ==
  /\ ret[v] = "rollback" /\ startErr[v] = "recreateTap"
  /\ pc[v] \in {"rel_iface", "rel_nat", "rel_tapdel"} /\ pc'[v] # pc[v]
\* What the other starts hold is reserved and on the host after the step as
\* it was before.
OthersKept(v) ==
  \A w \in VMs \ {v} : \A a \in live[w] :
    /\ a.subnetIndex \in allocatedSubnets => a.subnetIndex \in allocatedSubnets'
    /\ tapDev'[a.subnetIndex] = tapDev[a.subnetIndex]
    /\ natRules'[a.subnetIndex] = natRules[a.subnetIndex]
\* C35: when recreateTap fails during a snapshot restore, the rollback
\* releases no allocation that the failing start does not hold (the fresh
\* allocation released before the recreate attempt is not released again),
\* and an allocation a concurrent start has obtained for that index stays
\* reserved and keeps its TAP device and its NAT rules.
C35_RollbackReleasesOwnOnly ==
  [][\A v \in VMs : RecreateRollbackStep(v) => (relArg[v] \in live[v] /\ OthersKept(v))]_vars
\* The harm alone: what a concurrent start holds is kept by that rollback.
C35_ConcurrentKept ==
  [][\A v \in VMs : RecreateRollbackStep(v) => OthersKept(v)]_vars


\* ---- C36: the cleanup of a failed allocateTap and the other calls ----
\* The TAP devices on the host that calls other than the one of v created.
CreatedByOthers(v) == {i \in Idx : tapDev[i] \in VMs \ {v}}
\* C36: however concurrent allocateTap calls interleave, the cleanup of a
\* call that failed in a gateway step (its index un-reserved, then its
\* tap-delete awaited) deletes no TAP device that another call created, so
\* that every allocation returned to a caller keeps its device until that
\* allocation is released.
C36_CleanupSparesOthers ==
  [][\A v \in VMs : (SetupThrows(v) /\ ret[v] = "allocate") =>
        /\ \A i \in CreatedByOthers(v) : tapDev'[i] = tapDev[i]
        /\ \A w \in VMs \ {v} : \A a \in live[w] : tapDev'[a.subnetIndex] # NoCreator]_vars
\* The returned allocations alone.
C36_ReturnedKeepDevice ==
  [][\A v \in VMs : (SetupThrows(v) /\ ret[v] = "allocate") =>
        \A w \in VMs \ {v} : \A a \in live[w] :
           tapDev[a.subnetIndex] # NoCreator => tapDev'[a.subnetIndex] # NoCreator]_vars


\* ---- C37: what has been attempted when stop() or destroy() returns ----
\* The kill is issued in the run that sets `stopped` (lines 106-113); the
\* proxies are closed and releaseTap is called when the kill is over; the
\* socket is unlinked when releaseTap is over.
KillAttempted(v) == stopped[v]
ReleaseAttempted(v) == count[v].release >= 1
AllAttempted(v) ==
  /\ KillAttempted(v) /\ ReleaseAttempted(v)
  /\ count[v].proxies >= Len(proxies[v]) /\ count[v].unlink >= 1
\* A call of stop() or destroy() on v returns in this step: the one that ran
\* the cleanup, or one that found `stopped` set.
CallReturns(v) ==
  \/ StopInProgress(v) /\ pc'[v] = "up"
  \/ stopCalls'[v] = stopCalls[v] + 1 /\ stopped[v]
\* The step removes the working directory of v.
RemovesVmDir(v) == VmDir(v) \in dirs /\ VmDir(v) \notin dirs'
\* C37: whenever a call of stop() or destroy() on an instance returns, calls
\* that overlap a stop() in progress included, every cleanup step of the
\* instance (kill, proxy close, network release, socket deletion) has been
\* attempted; and destroy() does not delete the working directory before the
\* kill and the network release have been attempted.
C37_ReturnsAfterCleanup ==
  [][\A v \in VMs :
       /\ CallReturns(v) => AllAttempted(v)'
       /\ (RemovesVmDir(v) /\ stopCalls[v] >= 1 /\ stopped'[v])
            => (KillAttempted(v) /\ ReleaseAttempted(v))']_vars
\* The same without the calls that overlap a stop() in progress.
C37_Sequential ==
  [][\A v \in VMs :
       (~StopInProgress(v) \/ stopCalls'[v] = stopCalls[v]) =>
         /\ CallReturns(v) => AllAttempted(v)'
         /\ (RemovesVmDir(v) /\ stopped'[v]) => (KillAttempted(v) /\ ReleaseAttempted(v))']_vars


\* ---- C38: the rootfsPath of a returned instance ----
\* The start of v returns its instance in this step.
StartReturns(v) == pc[v] = "create_sandbox" /\ pc'[v] = "up"
\* C38: for every instance a successful start returns, fresh boot or
\* restore, the instance's rootfsPath is the path at which the rootfs copy of
\* that VM was placed and which its hypervisor uses as disk, and the file
\* exists, so that snapshot() has a file to copy and records that path.
C38_RootfsPathIsDisk ==
  [][\A v \in VMs :
       StartReturns(v) =>
         /\ RootfsPath(v) = vmRootfs[v]
         /\ RootfsPath(v) = hv'[v].disk
         /\ RootfsPath(v) \in DOMAIN files']_vars
\* The fresh-boot path alone.
C38_FreshBoot ==
  [][\A v \in VMs :
       (StartReturns(v) /\ opt[v] = NoSnapshot) =>
         /\ RootfsPath(v) = vmRootfs[v]
         /\ RootfsPath(v) = hv'[v].disk
         /\ RootfsPath(v) \in DOMAIN files']_vars


\* ---- C39: what listSnapshots reports ----
\* name.startsWith("_"), for the names that occur below the snapshot root
StartsWithUnderscore(name) == name = "_running"
\* listSnapshots, provider lines 439-458: the directories of the snapshot
\* root whose name does not start with "_" and that hold a snapshot.bin
listSnapshots(ds, fs) ==
  {d[1] : d \in {x \in ds : Len(x) = 1 /\ ~StartsWithUnderscore(x[1])
                             /\ Join(x, "snapshot.bin") \in DOMAIN fs}}
\* provider lines 235-237: a restore goes on if snapshot.bin exists
RestoreAccepts(s) == SnapshotBin(s) \in DOMAIN files
NoSnapshotInProgress ==
  \A v \in VMs : pc[v] \notin {"sn_pause", "sn_paused", "sn_create", "sn_resume"}
\* C39: whenever no snapshot() call is in progress, every id listSnapshots
\* returns, and every id a restore would accept, denotes a directory that
\* holds snapshot.bin, mem.bin, rootfs.ext4 and metadata.json; a snapshot()
\* that failed part-way has left no other.
C39_ListedSnapshotsComplete ==
  NoSnapshotInProgress =>
    \A s \in listSnapshots(dirs, files) \cup {x \in SnapIds : RestoreAccepts(x)} :
      SnapshotPaths(s) \subseteq DOMAIN files


\* ---- C40: what deleteSnapshot removes ----
\* deleteSnapshot is called in this step.
Deletes == deletion'.calls = deletion.calls + 1
\* The directory the id of the call denotes below the snapshot root.
DirOfId == PathJoin(<<>>, deletion'.id)
\* The instance of v is live: its hypervisor runs in its working directory.
LiveVm(v) == HvAlive(v) /\ VmDir(v) \in dirs
\* C40: deleteSnapshot(id) removes only a snapshot directory: for an id
\* whose directory does not exist it throws and changes nothing, and for no
\* id does it remove the _running directory, the working directory of a live
\* VM, or anything outside the snapshot root.
C40_DeletesSnapshotsOnly ==
  [][Deletes =>
       /\ DirOfId \notin dirs => (deletion'.threw /\ files' = files /\ dirs' = dirs)
       /\ <<"_running">> \in dirs => <<"_running">> \in dirs'
       /\ \A v \in VMs : LiveVm(v) => VmDir(v) \in dirs'
       /\ \A p \in DOMAIN files : OutsideRoot(p) => p \in DOMAIN files']_vars
\* The same for the ids that are the name of a snapshot.
C40_SnapshotIds ==
  [][(Deletes /\ deletion'.id \in {<<s>> : s \in SnapIds}) =>
       /\ DirOfId \notin dirs => (deletion'.threw /\ files' = files /\ dirs' = dirs)
       /\ \A d \in dirs \ dirs' : IsUnder(DirOfId, d)
       /\ \A p \in DOMAIN files \ DOMAIN files' : IsUnder(DirOfId, p)
       /\ \A p \in DOMAIN files' : files'[p] = files[p]]_vars

====
